---- MODULE Spec2Model ----
(***************************************************************************)
(* Model of the rake ingestion store of src/app.py: the table "rakes" with *)
(* its six-column unique constraint, insert_cleaned_data (chunked          *)
(* INSERT .. ON CONFLICT DO NOTHING in one transaction) and the row by row *)
(* fallback_insert, run by one caller (Spec) or by two concurrent callers  *)
(* (SpecConc) against one SQLite database; clean_data on the frames read   *)
(* from a CSV (SpecClean), the upload handler that cleans and then stores  *)
(* (SpecUpload), two uploads in a row (SpecDedup), the aggregates of       *)
(* dashboard and export_csv (SpecReport), their filters and outliers with  *)
(* source_outliers (SpecQuery), and commodity_analysis (SpecBest).         *)
(***************************************************************************)
EXTENDS Integers, Sequences, FiniteSets, TLC

\* ------------------------------------------------------------------ bounds

\* Longest batch (DataFrame) a caller submits. The code fixes chunksize = 50
\* (src/app.py:212); the model draws the chunk size from 1..MaxLen, so that a
\* batch is one chunk or several.
MaxLen == 2

\* A call starts only while the table and the batch together hold at most
\* MaxRows rows (rows with a missing dispatched_time can be stored again and
\* again, so the table is unbounded otherwise).
MaxRows == 4

\* ------------------------------------------------------------------- rows

\* A timestamp is the tuple << year, month, day, hour, minute >>. NaT is
\* pandas' missing timestamp, what clean_data leaves in dispatched_time when
\* the text does not parse (src/app.py:137-139); stored, it is SQL NULL.
NaT == << >>

\* The callers: two request threads of the Flask application.
Procs == {1, 2}

\* The rows a batch is drawn from, by name: a shipment, the same shipment
\* under another serial number, one of another rake type, and one whose
\* dispatched_time is missing; and the shipment to two other destinations.
Rows == { "A1", "A2", "B1", "N1", "I1", "R1" }

\* The record built from a row: its eleven fields (src/app.py:195-206).
\* rake_type and dispatched_time vary among the key fields, sr_no among the
\* others. transit_time_hrs is in hundredths of an hour.
Record(r) ==
  [ sr_no |-> IF r = "A2" THEN "2" ELSE "1",
    received_time |-> << 2024, 1, 1, 10, 0 >>,
    dispatched_time |-> IF r = "N1" THEN NaT ELSE << 2024, 1, 1, 4, 30 >>,
    transit_time |-> "5:30",
    transit_time_hrs |-> 550,
    sttn_from |-> "KRBA",
    sttn_to |-> CASE r = "I1" -> "ISP" [] r = "R1" -> "RSP" [] OTHER -> "BSL",
    cmdt |-> "COAL",
    commodity |-> "Coal",
    rake_type |-> IF r = "B1" THEN "BCN" ELSE "BOXN",
    totl_unts |-> 58 ]

\* The DataFrames handed to insert_cleaned_data: the rows in order, and
\* whether the frame has a "commodity" column (clean_data adds it only when
\* commodity_mappings is not empty, src/app.py:155-156). Without the column
\* the rows play no part, and frames of at most one row are drawn. The
\* frames are made of the rows to BSL; the rows to the other destinations
\* reach the table by upload.
FrameRows == { r \in Rows : Record(r).sttn_to = "BSL" }

RECURSIVE SeqsUpTo(_)
SeqsUpTo(n) ==
  IF n = 0 THEN { <<>> }
  ELSE LET shorter == SeqsUpTo(n - 1)
       IN  shorter \cup { Append(s, r) : s \in { t \in shorter : Len(t) = n - 1 }, r \in FrameRows }

Frames ==
  [ rows : SeqsUpTo(MaxLen), hasCommodity : { TRUE } ]
    \cup [ rows : SeqsUpTo(1), hasCommodity : { FALSE } ]

\* ------------------------------------------------------------- the table

\* A table is a bag of rows: for each row of Rows the number of stored rows
\* with its record (the surrogate id, src/app.py:26, is the only thing
\* telling such rows apart).
EmptyTable == [ r \in Rows |-> 0 ]

Add(tbl, r) == [ tbl EXCEPT ![r] = @ + 1 ]

RECURSIVE SumOver(_, _)
SumOver(tbl, S) ==
  IF S = {} THEN 0
  ELSE LET r == CHOOSE x \in S : TRUE IN tbl[r] + SumOver(tbl, S \ {r})

RowCount(tbl) == SumOver(tbl, Rows)

\* The columns of the unique constraint of the table.
uq_rake_time_to_from_cmdt_type ==
  { "received_time", "sttn_from", "sttn_to", "cmdt", "rake_type", "dispatched_time" }

\* The conflict target of the bulk statement.
index_elements ==
  { "received_time", "sttn_from", "sttn_to", "cmdt", "rake_type", "dispatched_time" }

\* Two records are the same shipment: equal on all six natural key fields.
SameKey(a, b) ==
  \A f \in uq_rake_time_to_from_cmdt_type : Record(a)[f] = Record(b)[f]

\* A unique index that compares NULL equal to NULL (not what SQLite does).
UniqueHitNullsEqual(cols, a, b) ==
  \A f \in cols : Record(a)[f] = Record(b)[f]

\* The value of column f is SQL NULL (of the columns of the model only the
\* DateTime ones, which hold NaT, ever are).
IsNull(f, v) == f \in { "received_time", "dispatched_time" } /\ v = NaT

\* SQLite's unique index on cols: two rows collide when they are equal on
\* every column and none of the values is NULL (NULLs are distinct).
UniqueHit(cols, a, b) ==
  \A f \in cols : Record(a)[f] = Record(b)[f] /\ ~IsNull(f, Record(a)[f])

\* A row of tbl collides with r on the unique index over cols.
HasConflict(tbl, cols, r) ==
  \E s \in Rows : tbl[s] > 0 /\ UniqueHit(cols, s, r)

\* ON CONFLICT DO UPDATE: the colliding stored row takes the new values.
OnConflictDoUpdate(tbl, r) ==
  LET s == CHOOSE x \in Rows : tbl[x] > 0 /\ UniqueHit(index_elements, x, r)
  IN  Add([ tbl EXCEPT ![s] = @ - 1 ], r)

\* ON CONFLICT DO NOTHING: the table is left as it is.
on_conflict_do_nothing(tbl, r) == tbl

\* One multi-row INSERT .. VALUES chunk ON CONFLICT (index_elements) DO
\* NOTHING, row after row: a row colliding with a row of the table, or with
\* an earlier row of the same statement, is left out. rowcount counts the
\* rows inserted.
RECURSIVE InsertValues(_, _, _)
InsertValues(tbl, chunk, n) ==
  IF chunk = <<>> THEN [ tbl |-> tbl, rowcount |-> n ]
  ELSE LET r == Head(chunk)
       IN  IF HasConflict(tbl, index_elements, r)
           THEN InsertValues(on_conflict_do_nothing(tbl, r), Tail(chunk), n)
           ELSE InsertValues(Add(tbl, r), Tail(chunk), n + 1)

\* ------------------------------------------------------------------ state

VARIABLES
  store,        \* the committed table "rakes"
  work,         \* the table as the open write transaction sees it (= store when none is open)
  lock,         \* the caller holding SQLite's write lock, 0 when it is free
  call,         \* per caller: where its insert_cleaned_data call stands
  last,         \* per caller: how its latest call ended
  chunksize,    \* the chunk size of the bulk path
  nat_binding,  \* what binding a NaT dispatched_time does: "null" | "error"
  commodity_mappings,  \* the commodity table loaded from commodity_mappings.txt
  request,      \* per caller: its upload request (the file read and cleaned)
  report        \* the aggregate of the latest dashboard or export request

\* nat_binding: the DateTime column is given pandas' NaT. Either it is stored
\* as NULL, or the SQLite DateTime type, which formats a datetime by its
\* year, month, .., raises on it (NaT is a datetime without them). Which one
\* depends on the installed pandas and SQLAlchemy, which the repository does
\* not pin; the model keeps both.

vars ==
  << store, work, lock, call, last, chunksize, nat_binding,
     commodity_mappings, request, report >>

\* No call in progress. Of a call in progress: pc, the records, the loop
\* index i (from 1), the counters, whether the session is deactivated, and
\* for the properties: the chunks executed, the table when the call began,
\* whether a storage fault was injected, the rows of the fallback whose own
\* flush failed, and whether the batch was fresh (its keys pairwise distinct
\* and none stored) or repeats the fresh batch of the call before, and
\* whether another caller's call ran while this one did; session: whether
\* the call has opened a session (session = SessionDB()).
Idle ==
  [ pc |-> "idle", records |-> <<>>, i |-> 0, inserted |-> 0, skipped |-> 0,
    deactive |-> FALSE, session |-> FALSE, chunks |-> 0, before |-> EmptyTable,
    faulted |-> FALSE, failed |-> {}, fresh |-> FALSE, repeat |-> FALSE,
    overlapped |-> FALSE ]

\* How a call ended: what it returned or that it raised, with the table
\* before and after it.
Summary(c, status, path, error, ret, after) ==
  [ status |-> status, path |-> path, error |-> error,
    records |-> c.records, before |-> c.before, after |-> after,
    inserted |-> ret.inserted, skipped |-> ret.skipped,
    faulted |-> c.faulted, failed |-> c.failed, session |-> c.session,
    fresh |-> c.fresh, repeat |-> c.repeat, overlapped |-> c.overlapped ]

\* A pair that counts a record.
NoReturnOneSkipped == [ inserted |-> 0, skipped |-> 1 ]

\* return 0, 0 (and the counts of a call that raised, which returns none).
NoReturn == [ inserted |-> 0, skipped |-> 0 ]

NoSummary == Summary(Idle, "none", "none", "none", NoReturn, EmptyTable)

Running == Summary(Idle, "running", "none", "none", NoReturn, EmptyTable)

\* The commodity table as a set of pairs << code, name >>, one per code.
CommodityFile == { << "COAL", "Coal" >> }

\* No upload request yet: nothing read, nothing cleaned.
NoRequest ==
  [ pc |-> "none", df_raw |-> [ columns |-> {}, rows |-> <<>> ],
    df_clean |-> [ error |-> "none", hasCommodity |-> FALSE, rows |-> <<>> ] ]

\* No aggregate computed yet.
NoReport == [ pc |-> "none" ]

\* An empty database and no request in progress.
InitStore ==
  /\ store = EmptyTable
  /\ work = EmptyTable
  /\ lock = 0
  /\ call = [ p \in Procs |-> Idle ]
  /\ last = [ p \in Procs |-> NoSummary ]
  /\ chunksize \in 1 .. MaxLen
  /\ nat_binding \in { "null", "error" }

Init ==
  /\ InitStore
  /\ commodity_mappings = CommodityFile
  /\ request = [ p \in Procs |-> NoRequest ]
  /\ report = NoReport

\* ---------------------------------------------------------------- helpers

\* The table as caller p's session sees it.
Visible(p) == IF lock = p THEN work ELSE store

\* The write lock is free for p: no other connection holds it.
CanWrite(p) == lock \in { 0, p }

\* Binding the row's values raises (a StatementError, before the statement
\* reaches the database).
BindFails(r) == Record(r).dispatched_time = NaT /\ nat_binding = "error"

Min(a, b) == IF a <= b THEN a ELSE b

\* A slice one row short: records[i:i + chunksize - 1].
ChunkShort(records, i) ==
  SubSeq(records, i, Min(i + chunksize - 2, Len(records)))

\* records[i:i + chunksize], i counted from 1.
Chunk(records, i) ==
  SubSeq(records, i, Min(i + chunksize - 1, Len(records)))

\* The session keeps its transaction.
NoRollback(p) == [ work |-> work, lock |-> lock ]

\* session.rollback() (also what a failed flush and session.close() do to
\* the open transaction): p's uncommitted rows are gone and the write lock
\* is released.
Rollback(p) ==
  IF lock = p THEN [ work |-> store, lock |-> 0 ]
  ELSE [ work |-> work, lock |-> lock ]

\* skipped = total - inserted; return inserted, skipped
Returned(total, inserted) ==
  [ inserted |-> inserted, skipped |-> total - inserted ]

\* The natural keys of the batch are pairwise distinct and none is stored.
Fresh(tbl, rows) ==
  /\ \A j, k \in 1 .. Len(rows) : j # k => ~SameKey(rows[j], rows[k])
  /\ \A j \in 1 .. Len(rows) : \A s \in Rows : tbl[s] > 0 => ~SameKey(s, rows[j])

\* The call ends: its summary is recorded and the caller is idle again.
Finish(p, s) ==
  /\ call' = [ call EXCEPT ![p] = Idle ]
  /\ last' = [ last EXCEPT ![p] = s ]

\* ------------------------------------------------------------------- texts

\* The characters of a text of the model: the headers of an uploaded CSV,
\* the names of the required columns and the texts of its cells.
Chars(text) ==
  CASE text = "Sr. No" -> << "S", "r", ".", " ", "N", "o" >>
    [] text = "SR NO" -> << "S", "R", " ", "N", "O" >>
    [] text = "Received Time" -> << "R", "e", "c", "e", "i", "v", "e", "d", " ", "T", "i", "m", "e" >>
    [] text = "Dispatched Time" -> << "D", "i", "s", "p", "a", "t", "c", "h", "e", "d", " ", "T", "i", "m", "e" >>
    [] text = "Transit Time" -> << "T", "r", "a", "n", "s", "i", "t", " ", "T", "i", "m", "e" >>
    [] text = "Sttn From" -> << "S", "t", "t", "n", " ", "F", "r", "o", "m" >>
    [] text = " Sttn To " -> << " ", "S", "t", "t", "n", " ", "T", "o", " " >>
    [] text = "Station To" -> << "S", "t", "a", "t", "i", "o", "n", " ", "T", "o" >>
    [] text = "Cmdt" -> << "C", "m", "d", "t" >>
    [] text = "Totl Unts" -> << "T", "o", "t", "l", " ", "U", "n", "t", "s" >>
    [] text = "Rake Type" -> << "R", "a", "k", "e", " ", "T", "y", "p", "e" >>
    [] text = "Remarks" -> << "R", "e", "m", "a", "r", "k", "s" >>
    [] text = "sr_no" -> << "s", "r", "_", "n", "o" >>
    [] text = "received_time" -> << "r", "e", "c", "e", "i", "v", "e", "d", "_", "t", "i", "m", "e" >>
    [] text = "dispatched_time" -> << "d", "i", "s", "p", "a", "t", "c", "h", "e", "d", "_", "t", "i", "m", "e" >>
    [] text = "transit_time" -> << "t", "r", "a", "n", "s", "i", "t", "_", "t", "i", "m", "e" >>
    [] text = "sttn_from" -> << "s", "t", "t", "n", "_", "f", "r", "o", "m" >>
    [] text = "sttn_to" -> << "s", "t", "t", "n", "_", "t", "o" >>
    [] text = "cmdt" -> << "c", "m", "d", "t" >>
    [] text = "totl_unts" -> << "t", "o", "t", "l", "_", "u", "n", "t", "s" >>
    [] text = "rake_type" -> << "r", "a", "k", "e", "_", "t", "y", "p", "e" >>
    [] text = "01-01-2024 10:00" -> << "0", "1", "-", "0", "1", "-", "2", "0", "2", "4", " ", "1", "0", ":", "0", "0" >>
    [] text = "01-01-2024 04:30" -> << "0", "1", "-", "0", "1", "-", "2", "0", "2", "4", " ", "0", "4", ":", "3", "0" >>
    [] text = "31-02-2024 10:00" -> << "3", "1", "-", "0", "2", "-", "2", "0", "2", "4", " ", "1", "0", ":", "0", "0" >>
    [] text = "2024-01-01 10:00" -> << "2", "0", "2", "4", "-", "0", "1", "-", "0", "1", " ", "1", "0", ":", "0", "0" >>
    [] text = "-" -> << "-" >>
    [] text = "5:30" -> << "5", ":", "3", "0" >>
    [] text = "5:45" -> << "5", ":", "4", "5" >>
    [] text = "5:30:15" -> << "5", ":", "3", "0", ":", "1", "5" >>
    [] text = "5:40" -> << "5", ":", "4", "0" >>
    [] text = "abc" -> << "a", "b", "c" >>
    [] text = "5:" -> << "5", ":" >>
    [] text = "x:30" -> << "x", ":", "3", "0" >>
    [] text = "12" -> << "1", "2" >>
    [] text = "58" -> << "5", "8" >>
    [] text = "58+2" -> << "5", "8", "+", "2" >>
    [] text = "N/A" -> << "N", "/", "A" >>

\* str.lower() of one character.
Lower(ch) ==
  CASE ch = "S" -> "s" [] ch = "R" -> "r" [] ch = "N" -> "n" [] ch = "O" -> "o"
    [] ch = "T" -> "t" [] ch = "D" -> "d" [] ch = "F" -> "f" [] ch = "C" -> "c"
    [] ch = "U" -> "u" [] OTHER -> ch

\* str.strip(): the characters without leading and trailing blanks.
RECURSIVE Strip(_)
Strip(cs) ==
  IF cs = << >> THEN cs
  ELSE IF Head(cs) = " " THEN Strip(Tail(cs))
  ELSE IF cs[Len(cs)] = " " THEN Strip(SubSeq(cs, 1, Len(cs) - 1))
  ELSE cs

\* str.replace(old, new) for one character old and the characters new.
RECURSIVE Replace(_, _, _)
Replace(cs, old, new) ==
  IF cs = << >> THEN cs
  ELSE (IF Head(cs) = old THEN new ELSE << Head(cs) >>) \o Replace(Tail(cs), old, new)

\* df.columns.str.strip().str.lower().str.replace(" ", "_").str.replace(".", "")
Canonical(cs) ==
  Replace(Replace([ k \in 1 .. Len(Strip(cs)) |-> Lower(Strip(cs)[k]) ],
                  " ", << "_" >>),
          ".", << >>)

\* str.split(sep): the parts of the characters between the separators.
RECURSIVE Split(_, _)
Split(cs, sep) ==
  IF \A k \in 1 .. Len(cs) : cs[k] # sep THEN << cs >>
  ELSE LET k == CHOOSE j \in 1 .. Len(cs) :
                  cs[j] = sep /\ \A i \in 1 .. j - 1 : cs[i] # sep
       IN  << SubSeq(cs, 1, k - 1) >> \o Split(SubSeq(cs, k + 1, Len(cs)), sep)

\* NaN, what pd.to_numeric(errors="coerce") gives for a text that is no
\* number. The numbers of the model are the naturals (its texts carry no
\* sign, point or exponent), which leaves -1 to stand for it.
NaN == 0 - 1

Digit(ch) ==
  CASE ch = "0" -> 0 [] ch = "1" -> 1 [] ch = "2" -> 2 [] ch = "3" -> 3
    [] ch = "4" -> 4 [] ch = "5" -> 5 [] ch = "6" -> 6 [] ch = "7" -> 7
    [] ch = "8" -> 8 [] ch = "9" -> 9 [] OTHER -> NaN

\* pd.to_numeric(text, errors="coerce") for a text of digits; NaN for the
\* empty text and for a text with another character.
RECURSIVE to_numeric(_)
to_numeric(cs) ==
  IF cs = << >> \/ \E k \in 1 .. Len(cs) : Digit(cs[k]) = NaN THEN NaN
  ELSE IF Len(cs) = 1 THEN Digit(cs[1])
  ELSE 10 * to_numeric(SubSeq(cs, 1, Len(cs) - 1)) + Digit(cs[Len(cs)])

\* The days of month m of year y.
DaysIn(m, y) ==
  IF m \in { 4, 6, 9, 11 } THEN 30
  ELSE IF m # 2 THEN 31
  ELSE IF y % 4 = 0 /\ (y % 100 # 0 \/ y % 400 = 0) THEN 29
  ELSE 28

\* pd.to_datetime(text, format="%d-%m-%Y %H:%M", errors="coerce"): the
\* timestamp of a text "dd-mm-yyyy HH:MM" that names a date and a time, NaT
\* for any other text.
to_datetime(cs) ==
  LET halves == Split(cs, " ")
      date == Split(halves[1], "-")
      time == Split(halves[2], ":")
      d == to_numeric(date[1])
      m == to_numeric(date[2])
      y == to_numeric(date[3])
      H == to_numeric(time[1])
      M == to_numeric(time[2])
  IN  IF Len(halves) # 2 THEN NaT
      ELSE IF Len(date) # 3 \/ Len(time) # 2 THEN NaT
      ELSE IF Len(date[1]) > 2 \/ Len(date[2]) > 2 \/ Len(date[3]) # 4 THEN NaT
      ELSE IF Len(time[1]) > 2 \/ Len(time[2]) > 2 THEN NaT
      ELSE IF NaN \in { d, m, y, H, M } THEN NaT
      ELSE IF m \notin 1 .. 12 \/ H > 23 \/ M > 59 THEN NaT
      ELSE IF d \notin 1 .. DaysIn(m, y) THEN NaT
      ELSE << y, m, d, H, M >>

\* ------------------------------------------------------------- clean_data

\* The nine columns clean_data selects.
required_cols ==
  { "sr_no", "received_time", "dispatched_time", "transit_time", "sttn_from",
    "sttn_to", "cmdt", "totl_unts", "rake_type" }

\* The header line of the CSV the application is fed, as a set of headers.
Headers ==
  { "Sr. No", "Received Time", "Dispatched Time", "Transit Time", "Sttn From",
    " Sttn To ", "Cmdt", "Totl Unts", "Rake Type" }

\* The rows of an uploaded CSV, by name: a shipment (a1), and rows that
\* differ from it in one cell.
RawRows ==
  { "a1", "a2", "b1", "n1",
    "d2", "d3", "d4", "d5", "d6", "d7", "x1", "x2",
    "t1", "t2", "t3", "t4", "t5", "t6", "t7",
    "r1", "r2", "o1", "o2", "c1", "u1", "u2" }

\* The cells of a row of the CSV, by canonical column name.
Raw(r) ==
  [ sr_no |-> IF r = "a2" THEN "2" ELSE "1",
    received_time |->
      CASE r = "r1" -> "31-02-2024 10:00"
        [] r = "r2" -> "2024-01-01 10:00"
        [] OTHER -> "01-01-2024 10:00",
    dispatched_time |-> IF r = "n1" THEN "-" ELSE "01-01-2024 04:30",
    transit_time |->
      CASE r = "t1" -> "5:45" [] r = "t2" -> "5:30:15" [] r = "t3" -> "abc"
        [] r = "t4" -> "5:" [] r = "t5" -> "x:30" [] r = "t6" -> "12"
        [] r = "t7" -> "5:40" [] OTHER -> "5:30",
    sttn_from |->
      CASE r = "o1" -> "BNDM" [] r = "o2" -> "DSPY" [] OTHER -> "KRBA",
    sttn_to |->
      CASE r = "d2" -> "BSPC" [] r = "d3" -> "DSEY" [] r = "d4" -> "IISD"
        [] r = "d5" -> "BCME" [] r = "d6" -> "HSPG" [] r = "d7" -> "NHSB"
        [] r = "x1" -> "XXXX" [] r = "x2" -> "BSL" [] OTHER -> "BSCS",
    cmdt |-> IF r = "c1" THEN "IORE" ELSE "COAL",
    totl_unts |->
      CASE r = "u1" -> "58+2" [] r = "u2" -> "N/A" [] OTHER -> "58",
    rake_type |-> IF r = "b1" THEN "BCN" ELSE "BOXN" ]

\* df.columns after the headers are made canonical (lines 117-123).
Columns(df) == { Canonical(Chars(h)) : h \in df.columns }

\* df[col] exists after the headers are made canonical.
HasColumn(df, col) == Chars(col) \in Columns(df)

\* parts = df["transit_time"].astype(str).str.split(":", expand=True): one
\* column per part of the longest split of the frame.
PartsWidth(df) ==
  LET lens == { Len(Split(Chars(Raw(df.rows[k]).transit_time), ":")) :
                  k \in 1 .. Len(df.rows) }
  IN  CHOOSE n \in lens : \A m \in lens : m <= n

\* parts[j] of a row, counted from 0: the part, or None (the empty text here,
\* NaN like it under to_numeric) where the row has fewer parts.
Part(r, j) ==
  LET parts == Split(Chars(Raw(r).transit_time), ":")
  IN  IF j + 1 <= Len(parts) THEN parts[j + 1] ELSE << >>

\* (df["Hrs"] + df["Mins"] / 60).round(2), in hundredths of an hour:
\* 100 * Hrs + 5 * Mins / 3 rounded to the nearest integer (never halfway).
Hours(Hrs, Mins) ==
  IF Hrs = NaN \/ Mins = NaN THEN NaN
  ELSE (600 * Hrs + 10 * Mins + 3) \div 6

\* df["cmdt"].replace(commodity_mappings) for one value: the name of the
\* code where the table has the code, the code itself otherwise.
ReplaceCode(mappings, code) ==
  IF \E pr \in mappings : pr[1] = code
  THEN (CHOOSE pr \in mappings : pr[1] = code)[2]
  ELSE code

valid_destinations == { "BSCS", "BSPC", "DSEY", "IISD", "BCME", "HSPG", "NHSB" }

clean_sttn_from == { "BNDM", "DSPY" }

\* A table that sends DSEY where BSPC goes.
StandardCodeMerged(code) ==
  CASE code = "BSCS" -> "BSL" [] code = "BSPC" -> "BSP" [] code = "DSEY" -> "BSP"
    [] code = "IISD" -> "ISP" [] code = "BCME" -> "ISP" [] code = "HSPG" -> "RSP"
    [] code = "NHSB" -> "RSP" [] OTHER -> code

\* A table that sends BCME to a destination of its own.
StandardCodeApart(code) ==
  CASE code = "BSCS" -> "BSL" [] code = "BSPC" -> "BSP" [] code = "DSEY" -> "DSP"
    [] code = "IISD" -> "ISP" [] code = "BCME" -> "BCM" [] code = "HSPG" -> "RSP"
    [] code = "NHSB" -> "RSP" [] OTHER -> code

\* df["sttn_to"].replace({...}) for one value (src/app.py:168-176).
StandardCode(code) ==
  CASE code = "BSCS" -> "BSL" [] code = "BSPC" -> "BSP" [] code = "DSEY" -> "DSP"
    [] code = "IISD" -> "ISP" [] code = "BCME" -> "ISP" [] code = "HSPG" -> "RSP"
    [] code = "NHSB" -> "RSP" [] OTHER -> code

\* Row k of the frame after the column steps of clean_data (lines 133-156
\* and 168-176), before any row is dropped: index is its label in the frame
\* read, commodity is there only if commodity_mappings is not empty.
CleanRow(df, k) ==
  LET raw == Raw(df.rows[k])
      r == df.rows[k]
      row == [ index |-> k,
               sr_no |-> raw.sr_no,
               received_time |-> to_datetime(Chars(raw.received_time)),
               dispatched_time |-> to_datetime(Chars(raw.dispatched_time)),
               transit_time |-> raw.transit_time,
               transit_time_hrs |-> Hours(to_numeric(Part(r, 0)), to_numeric(Part(r, 1))),
               sttn_from |-> raw.sttn_from,
               sttn_to |-> StandardCode(raw.sttn_to),
               cmdt |-> raw.cmdt,
               totl_unts |-> to_numeric(Split(Chars(raw.totl_unts), "+")[1]),
               rake_type |-> raw.rake_type ]
  IN  IF commodity_mappings # {}
      THEN [ f \in DOMAIN row \cup { "commodity" } |->
               IF f = "commodity" THEN ReplaceCode(commodity_mappings, raw.cmdt)
               ELSE row[f] ]
      ELSE row

\* A filter that also drops the rows without a unit count.
KeepsCounted(r, row) ==
  /\ Raw(r).sttn_to \in valid_destinations
  /\ row.sttn_from \notin clean_sttn_from
  /\ row.received_time # NaT
  /\ row.transit_time_hrs # NaN
  /\ row.totl_unts # NaN

\* The cleaned row stays: its destination was a valid one (line 162; row is
\* the cleaned row of the row r of the file), its origin is not one of
\* clean_sttn_from (line 165), and neither received_time nor
\* transit_time_hrs is missing (line 179).
Keeps(r, row) ==
  /\ Raw(r).sttn_to \in valid_destinations
  /\ row.sttn_from \notin clean_sttn_from
  /\ row.received_time # NaT
  /\ row.transit_time_hrs # NaN

\* The rows k .. of the frame that stay, cleaned, in the order of the frame.
RECURSIVE CleanRows(_, _)
CleanRows(df, k) ==
  IF k > Len(df.rows) THEN << >>
  ELSE LET row == CleanRow(df, k)
       IN  (IF Keeps(df.rows[k], row) THEN << row >> ELSE << >>)
             \o CleanRows(df, k + 1)

\* clean_data raised: no frame.
Raises(error) == [ error |-> error, hasCommodity |-> FALSE, rows |-> << >> ]

\* clean_data without its selection of the required columns.
clean_data_unselected(df) ==
  IF PartsWidth(df) < 2 THEN Raises("KeyError: 1")
  ELSE [ error |-> "none", hasCommodity |-> commodity_mappings # {},
         rows |-> CleanRows(df, 1) ]

\* clean_data(df): df[required_cols] raises KeyError when a required column
\* is missing (line 131), parts[1] raises KeyError when no transit_time of
\* the frame has a colon (line 144); otherwise the cleaned frame.
clean_data(df) ==
  LET columns == Columns(df)
  IN  IF \E col \in required_cols : Chars(col) \notin columns
      THEN Raises("KeyError: not in index")
      ELSE IF PartsWidth(df) < 2 THEN Raises("KeyError: 1")
      ELSE [ error |-> "none", hasCommodity |-> commodity_mappings # {},
             rows |-> CleanRows(df, 1) ]

\* ------------------------------------------- insert_cleaned_data, bulk path

\* insert_cleaned_data(df) up to the first chunk. An empty frame returns
\* (0, 0) before a session exists. Building the record dicts reads
\* row["commodity"]: without that column it raises KeyError inside the try,
\* the handler rolls back and calls fallback_insert(session, records) with
\* records never bound, and that UnboundLocalError leaves the call (finally
\* closes the session).
Start(p, df) ==
  /\ call[p].pc = "idle"
  /\ RowCount(store) + Len(df.rows) <= MaxRows
  /\ LET c == [ Idle EXCEPT !.records = df.rows, !.before = store,
                            !.fresh = Fresh(store, df.rows),
                            !.repeat = /\ last[p].status = "returned"
                                       /\ last[p].path # "empty"
                                       /\ last[p].fresh
                                       /\ ~last[p].faulted
                                       /\ last[p].records = df.rows
                                       /\ last[p].after = store,
                            !.overlapped = \E q \in Procs : call[q].pc # "idle" ]
         meet == [ q \in Procs |->
                   IF call[q].pc = "idle" THEN call[q]
                   ELSE [ call[q] EXCEPT !.overlapped = TRUE ] ]
     IN  IF df.rows = <<>>
         THEN Finish(p, Summary(c, "returned", "empty", "none", NoReturn, store))
         ELSE IF ~df.hasCommodity
         THEN Finish(p, Summary([ c EXCEPT !.session = TRUE ], "raised", "build",
                                "UnboundLocalError", NoReturn, store))
         ELSE /\ call' = [ meet EXCEPT ![p] = [ c EXCEPT !.pc = "bulk", !.i = 1,
                                                        !.session = TRUE ] ]
              /\ last' = [ last EXCEPT ![p] = Running ]
  /\ UNCHANGED << store, work, lock, chunksize, nat_binding, commodity_mappings, report >>

\* except Exception: session.rollback(), then fallback_insert starts with
\* its own counters at 0.
BulkFailed(p, injected) ==
  /\ work' = Rollback(p).work
  /\ lock' = Rollback(p).lock
  /\ call' = [ call EXCEPT ![p] = [ @ EXCEPT !.pc = "fallback", !.i = 1,
                                             !.inserted = 0, !.skipped = 0,
                                             !.faulted = @ \/ injected ] ]
  /\ UNCHANGED << store, last, chunksize, nat_binding, commodity_mappings, request, report >>

\* One turn of the chunk loop: session.execute of the chunk's statement in
\* the session's transaction (begun by the first statement, which takes the
\* write lock; the statement waits while another connection holds it).
\* Nothing is committed here.
ExecChunk(p) ==
  LET c == call[p]
      chunk == Chunk(c.records, c.i)
  IN  /\ c.pc = "bulk"
      /\ c.i <= Len(c.records)
      /\ CanWrite(p)
      /\ IF \E k \in 1 .. Len(chunk) : BindFails(chunk[k])
         THEN BulkFailed(p, FALSE)
         ELSE LET res == InsertValues(Visible(p), chunk, 0)
              IN  /\ work' = res.tbl
                  /\ lock' = p
                  /\ call' = [ call EXCEPT ![p] =
                                 [ c EXCEPT !.inserted = @ + res.rowcount,
                                            !.i = @ + chunksize,
                                            !.chunks = @ + 1 ] ]
                  /\ UNCHANGED << store, last, chunksize, nat_binding, commodity_mappings, request, report >>

\* session.execute raises for a reason of the storage (the database stays
\* locked beyond the busy timeout, an I/O error).
ExecChunkFault(p) ==
  /\ call[p].pc = "bulk"
  /\ call[p].i <= Len(call[p].records)
  /\ BulkFailed(p, TRUE)

\* session.commit() after the last chunk, then finally, skipped = total -
\* inserted and the return.
BulkCommit(p) ==
  LET c == call[p]
  IN  /\ c.pc = "bulk"
      /\ c.i > Len(c.records)
      /\ lock = p
      /\ store' = work
      /\ lock' = 0
      /\ Finish(p, Summary(c, "returned", "bulk", "none",
                           Returned(Len(c.records), c.inserted), work))
      /\ UNCHANGED << work, chunksize, nat_binding, commodity_mappings, request, report >>

\* session.commit() raises.
BulkCommitFault(p) ==
  /\ call[p].pc = "bulk"
  /\ call[p].i > Len(call[p].records)
  /\ BulkFailed(p, TRUE)

\* -------------------------------------------------------- fallback_insert

\* The IntegrityError handler without its count.
OnIntegrityErrorUncounted(c) == c

\* except IntegrityError: session.rollback(); skipped += 1
OnIntegrityError(c) == [ c EXCEPT !.skipped = @ + 1 ]

\* except Exception: print; skipped += 1. No rollback: the session stays in
\* the state the failed flush left it in, deactivated until a rollback.
OnRowError(c) == [ c EXCEPT !.skipped = @ + 1, !.deactive = TRUE ]

\* One turn of the loop of fallback_insert: Rake(**rec), session.add,
\* session.flush. A flush that raises has rolled the session's transaction
\* back, with it every row flushed since the last commit. On a deactivated
\* session the flush raises at once (PendingRollbackError) and reaches no
\* database.
FallbackRow(p) ==
  LET c == call[p]
      r == c.records[c.i]
  IN  /\ c.pc = "fallback"
      /\ c.i <= Len(c.records)
      /\ IF c.deactive
         THEN /\ call' = [ call EXCEPT ![p] = [ OnRowError(c) EXCEPT !.i = @ + 1 ] ]
              /\ UNCHANGED << work, lock >>
         ELSE /\ CanWrite(p)
              /\ IF BindFails(r)
                 THEN /\ work' = Rollback(p).work
                      /\ lock' = Rollback(p).lock
                      /\ call' = [ call EXCEPT ![p] =
                                     [ OnRowError(c) EXCEPT !.i = @ + 1,
                                                            !.failed = @ \cup { c.i } ] ]
                 ELSE IF HasConflict(Visible(p), uq_rake_time_to_from_cmdt_type, r)
                 THEN /\ work' = Rollback(p).work
                      /\ lock' = Rollback(p).lock
                      /\ call' = [ call EXCEPT ![p] =
                                     [ OnIntegrityError(c) EXCEPT !.i = @ + 1,
                                                                  !.failed = @ \cup { c.i } ] ]
                 ELSE /\ work' = Add(Visible(p), r)
                      /\ lock' = p
                      /\ call' = [ call EXCEPT ![p] =
                                     [ c EXCEPT !.i = @ + 1, !.inserted = @ + 1 ] ]
      /\ UNCHANGED << store, last, chunksize, nat_binding, commodity_mappings, request, report >>

\* The flush raises for a reason of the storage (OperationalError).
FallbackRowFault(p) ==
  LET c == call[p]
  IN  /\ c.pc = "fallback"
      /\ c.i <= Len(c.records)
      /\ ~c.deactive
      /\ work' = Rollback(p).work
      /\ lock' = Rollback(p).lock
      /\ call' = [ call EXCEPT ![p] =
                     [ OnRowError(c) EXCEPT !.i = @ + 1, !.faulted = TRUE,
                                            !.failed = @ \cup { c.i } ] ]
      /\ UNCHANGED << store, last, chunksize, nat_binding, commodity_mappings, request, report >>

\* session.commit() at the end of fallback_insert and the return through
\* insert_cleaned_data (total = inserted + skipped; skipped = total -
\* inserted). On a deactivated session the commit raises
\* PendingRollbackError, which no handler catches.
FallbackCommit(p) ==
  LET c == call[p]
  IN  /\ c.pc = "fallback"
      /\ c.i > Len(c.records)
      /\ IF c.deactive
         THEN /\ Finish(p, Summary(c, "raised", "fallback", "PendingRollbackError",
                                   NoReturn, store))
              /\ UNCHANGED << store, lock >>
         ELSE /\ store' = Visible(p)
              /\ lock' = IF lock = p THEN 0 ELSE lock
              /\ Finish(p, Summary(c, "returned", "fallback", "none",
                                   Returned(c.inserted + c.skipped, c.inserted),
                                   Visible(p)))
      /\ UNCHANGED << work, chunksize, nat_binding, commodity_mappings, request, report >>

\* That commit raises for a reason of the storage; session.close() in the
\* finally block ends the transaction.
FallbackCommitFault(p) ==
  LET c == call[p]
  IN  /\ c.pc = "fallback"
      /\ c.i > Len(c.records)
      /\ ~c.deactive
      /\ work' = Rollback(p).work
      /\ lock' = Rollback(p).lock
      /\ Finish(p, Summary([ c EXCEPT !.faulted = TRUE ], "raised", "fallback",
                           "OperationalError", NoReturn, store))
      /\ UNCHANGED << store, chunksize, nat_binding, commodity_mappings, request, report >>

\* ---------------------------------------------------------- specifications

Step(p) ==
  \/ ExecChunk(p)
  \/ ExecChunkFault(p)
  \/ BulkCommit(p)
  \/ BulkCommitFault(p)
  \/ FallbackRow(p)
  \/ FallbackRowFault(p)
  \/ FallbackCommit(p)
  \/ FallbackCommitFault(p)

\* One caller, any number of uploads one after the other.
Next ==
  \/ \E df \in Frames : Start(1, df) /\ UNCHANGED request
  \/ Step(1)

Spec == Init /\ [][Next]_vars

\* Two callers, one upload each, interleaved statement by statement.
ConcStart(p) ==
  /\ last[p].status = "none"
  /\ \E df \in Frames : Start(p, df)
  /\ UNCHANGED request

NextConc == \E p \in Procs : ConcStart(p) \/ Step(p)

SpecConc == Init /\ [][NextConc]_vars

\* ------------------------------------------- specifications of the upload

\* The header lines of the files: the nine headers, without one of them,
\* with one spelled another way (to the same canonical name, or not), and
\* with a tenth column.
HeaderSets ==
  { Headers,
    Headers \ { "Cmdt" },
    (Headers \ { "Sr. No" }) \cup { "SR NO" },
    (Headers \ { " Sttn To " }) \cup { "Station To" },
    Headers \cup { "Remarks" } }

\* The sequences of 1 .. n rows of S.
RECURSIVE RowSeqs(_, _)
RowSeqs(S, n) ==
  IF n = 0 THEN { }
  ELSE LET shorter == RowSeqs(S, n - 1)
       IN  { << r >> : r \in S } \cup shorter
             \cup { Append(t, r) : t \in { u \in shorter : Len(u) = n - 1 }, r \in S }

\* The rows that files of several rows are made of.
MixRows ==
  { "a1", "n1", "d4", "d5", "x1", "t2", "t3", "t4", "t6", "r1", "o1", "c1" }

\* The files read (pd.read_csv): a header line and one to MaxLen rows. The
\* files of one row hold any row under any header line, the longer ones
\* the rows of MixRows under the nine headers.
RawFrames ==
  [ columns : { Headers }, rows : RowSeqs(MixRows, MaxLen) ]
    \cup [ columns : HeaderSets, rows : RowSeqs(RawRows, 1) ]

\* The commodity tables: none, one code, two codes.
CommodityTables ==
  { { }, CommodityFile, CommodityFile \cup { << "IORE", "Iron Ore" >> } }

\* clean_data applied to the frame read by request p.
Clean(p) ==
  /\ request[p].pc = "read"
  /\ LET df_clean == clean_data(request[p].df_raw)
     IN  request' = [ request EXCEPT ![p] =
                        [ @ EXCEPT !.pc = IF df_clean.error = "none"
                                          THEN "cleaned" ELSE "failed",
                                   !.df_clean = df_clean ] ]
  /\ UNCHANGED << store, work, lock, call, last, chunksize, nat_binding,
                  commodity_mappings, report >>

\* The row of the table's model that a cleaned row makes: the one with its
\* fields (commodity only if the frame has the column).
RowOf(row) ==
  CHOOSE r \in Rows :
    \A f \in DOMAIN Record(r) :
      f \in DOMAIN row => Record(r)[f] = row[f]

\* The cleaned frame as insert_cleaned_data is given it.
FrameOf(df_clean) ==
  [ rows |-> [ j \in 1 .. Len(df_clean.rows) |-> RowOf(df_clean.rows[j]) ],
    hasCommodity |-> df_clean.hasCommodity ]

\* The rows of the uploaded files: those of a1, a2, b1 and n1 make the rows
\* A1, A2, B1 and N1 of the table, x1 (no valid destination) and t3 (no
\* duration) make none.
UploadRows == { "a1", "a2", "b1", "n1", "x1", "t3" }

UploadFiles ==
  [ columns : { Headers }, rows : RowSeqs(UploadRows, MaxLen) ]
    \cup [ columns : { Headers \ { "Cmdt" }, (Headers \ { "Sr. No" }) \cup { "SR NO" } },
           rows : RowSeqs(UploadRows, 1) ]

\* upload(), POST of a CSV file: pd.read_csv, clean_data and the start of
\* insert_cleaned_data, all inside the try. An exception of clean_data ends
\* the request with the message "Error processing file: ..."; the insert is
\* not called.
Upload(p, file) ==
  /\ request[p].pc = "none"
  /\ call[p].pc = "idle"
  /\ LET df_clean == clean_data(file)
     IN  IF df_clean.error # "none"
         THEN /\ request' = [ request EXCEPT ![p] =
                               [ pc |-> "failed", df_raw |-> file, df_clean |-> df_clean ] ]
              /\ UNCHANGED << store, work, lock, call, last, chunksize, nat_binding,
                              commodity_mappings, report >>
         ELSE /\ request' = [ request EXCEPT ![p] =
                               [ pc |-> "cleaned", df_raw |-> file, df_clean |-> df_clean ] ]
              /\ Start(p, FrameOf(df_clean))

\* The message the upload redirects with: "Processed. Inserted: ..." when
\* insert_cleaned_data returned, "Error processing file: ..." when clean_data
\* or insert_cleaned_data raised; none while the request runs.
Msg(rq, L) ==
  IF rq.pc = "failed" \/ (rq.pc = "cleaned" /\ L.status = "raised")
  THEN "Error processing file"
  ELSE IF rq.pc = "cleaned" /\ L.status = "returned" THEN "Processed"
  ELSE "none"

\* The database when an upload arrives: empty, or holding the shipment A1.
InitUpload ==
  /\ store \in { EmptyTable, Add(EmptyTable, "A1") }
  /\ work = store
  /\ lock = 0
  /\ call = [ p \in Procs |-> Idle ]
  /\ last = [ p \in Procs |-> NoSummary ]
  /\ chunksize \in 1 .. MaxLen
  /\ nat_binding \in { "null", "error" }
  /\ commodity_mappings \in CommodityTables
  /\ request = [ p \in Procs |-> NoRequest ]
  /\ report = NoReport

\* One upload of one file, from the request to the redirect.
NextUpload ==
  \/ \E file \in UploadFiles : Upload(1, file)
  \/ Step(1)

SpecUpload == InitUpload /\ [][NextUpload]_vars

\* The rows of the files of two uploads in a row: the shipment a1 sent to
\* IISD, BCME, HSPG and NHSB.
DedupRows == { "d4", "d5", "d6", "d7" }

DedupFiles == [ columns : { Headers }, rows : RowSeqs(DedupRows, MaxLen) ]

\* Two uploads one after the other into an empty table: the second request
\* arrives when the first has been answered.
NextDedup ==
  \/ \E file \in DedupFiles : Upload(1, file)
  \/ Step(1)
  \/ \E file \in DedupFiles :
       /\ request[1].pc # "none"
       /\ call[1].pc = "idle"
       /\ Upload(2, file)
  \/ Step(2)

SpecDedup == Init /\ [][NextDedup]_vars

\* clean_data as a function: a file and a commodity table are drawn, and
\* the file is cleaned.
InitClean ==
  /\ store = EmptyTable
  /\ work = EmptyTable
  /\ lock = 0
  /\ call = [ p \in Procs |-> Idle ]
  /\ last = [ p \in Procs |-> NoSummary ]
  /\ chunksize = 1
  /\ nat_binding = "null"
  /\ commodity_mappings \in CommodityTables
  /\ \E df \in RawFrames :
       request = [ p \in Procs |->
                     IF p = 1 THEN [ NoRequest EXCEPT !.pc = "read", !.df_raw = df ]
                     ELSE NoRequest ]
  /\ report = NoReport

NextClean == Clean(1)

SpecClean == InitClean /\ [][NextClean]_vars

\* ------------------------------------------------- dashboard and export_csv

\* The days of year y before its month m.
RECURSIVE DaysBefore(_, _)
DaysBefore(m, y) ==
  IF m = 1 THEN 0 ELSE DaysBefore(m - 1, y) + DaysIn(m - 1, y)

\* The day of a timestamp of 2024, counted from 0 = Monday 1 January 2024
\* (so day n is a Monday when n % 7 = 0 and a Sunday when n % 7 = 6).
DayNumber(ts) == DaysBefore(ts[2], ts[1]) + ts[3] - 1

\* The month of 2024 that day n lies in.
MonthOf(n) ==
  CHOOSE m \in 1 .. 12 : DaysBefore(m, 2024) <= n /\ n < DaysBefore(m, 2024) + DaysIn(m, 2024)

\* The rakes a report is made of: received 1 January (a Monday), 7 January
\* (a Sunday), 8 and 22 January, 5 February and 31 March 2024 (a Sunday),
\* with a transit time of 5.50 or 24.00 hours, from KRBA or with no origin
\* (the column sttn_from is nullable, line 34).
None == "None"

ReportRakes ==
  [ received_time : { << 2024, 1, 1, 10, 0 >>, << 2024, 1, 7, 10, 0 >>,
                      << 2024, 1, 8, 10, 0 >>, << 2024, 1, 22, 10, 0 >>,
                      << 2024, 2, 5, 10, 0 >>, << 2024, 3, 31, 10, 0 >> },
    transit_time_hrs : { 550, 2400 },
    sttn_from : { "KRBA", None },
    sttn_to : { "BSL" }, commodity : { "Coal" }, rake_type : { "BOXN" } ]

\* The sets of at most n elements of S, and the non-empty ones.
RECURSIVE SetsWithin(_, _)
SetsWithin(S, n) ==
  IF n = 0 THEN { { } }
  ELSE SetsWithin(S, n - 1) \cup { T \cup { x } : T \in SetsWithin(S, n - 1), x \in S }

SetsUpTo(S, n) == SetsWithin(S, n) \ { { } }

analysis_types == { "last30days", "weekly", "fortnightly", "monthly" }

\* A form field that is not sent.
Absent == "absent"

\* request.form.get("analysis_type", "last30days") (lines 394, 1155).
AnalysisType(form) ==
  IF form.analysis_type = Absent THEN "last30days" ELSE form.analysis_type

\* timedelta(days=...) of the date filter of an analysis type.
CutoffDays(analysis_type) ==
  CASE analysis_type = "last30days" -> 30
    [] analysis_type = "weekly" -> 90
    [] analysis_type = "fortnightly" -> 120
    [] analysis_type = "monthly" -> 365

\* The date filter (lines 433-444, 1174-1185): the rakes received since the
\* cutoff of the analysis type (now is midnight of day now); every rake
\* when the analysis type is none of the four.
Filtered(table, analysis_type, now) ==
  IF analysis_type \in analysis_types
  THEN { r \in table : DayNumber(r.received_time) >= now - CutoffDays(analysis_type) }
  ELSE table

\* A filter that filters nothing.
WhereAny(table, column, value) == table

\* if value: query = query.filter(column == value).
Where(table, column, value) ==
  IF value = "" THEN table ELSE { r \in table : r[column] = value }

\* sorted(...)[0] of a set of destinations.
FirstSorted(S) ==
  LET order == << "BSL", "BSP" >>
  IN  order[CHOOSE i \in 1 .. Len(order) :
              order[i] \in S /\ \A j \in 1 .. i - 1 : order[j] \notin S]

\* selected_unit of the dashboard (line 393): the unit asked for, or the
\* first destination of the table (the tables of the model are not empty).
SelectedUnit(table, form) ==
  IF form.unit # "" THEN form.unit ELSE FirstSorted({ r.sttn_to : r \in table })

\* rows = query.all() of the dashboard (lines 421-446) and of export_csv
\* (lines 1161-1187).
DashboardRows(table, form, now) ==
  Filtered(Where(Where(Where(Where(table, "sttn_to", SelectedUnit(table, form)),
                             "sttn_from", form.sttn_from),
                       "commodity", form.commodity),
                 "rake_type", form.rake_type),
           AnalysisType(form), now)

ExportRows(table, form, now) ==
  Filtered(Where(Where(Where(Where(table, "sttn_to", form.unit),
                             "sttn_from", form.sttn_from),
                       "commodity", form.commodity),
                 "rake_type", form.rake_type),
           AnalysisType(form), now)

\* rows = query.all() of source_outliers (lines 1105-1117).
SourceOutliersRows(table, args, now) ==
  { r \in Where(Where(table, "commodity", args.commodity), "sttn_to", args.destination) :
      /\ r.sttn_from = args.source_station
      /\ DayNumber(r.received_time) >= now - 30 }

RECURSIVE Total(_)
Total(S) ==
  IF S = { } THEN 0
  ELSE LET r == CHOOSE x \in S : TRUE IN r.transit_time_hrs + Total(S \ { r })

\* mean().round(2) of hundredths: the nearest integer to total / count, the
\* even one of the two when it lies halfway; NaN for no rows.
RoundedMean(total, count) ==
  IF count = 0 THEN NaN
  ELSE LET q == total \div count
           rest == 2 * (total % count)
       IN  IF rest < count THEN q
           ELSE IF rest > count THEN q + 1
           ELSE IF q % 2 = 0 THEN q ELSE q + 1

\* The Sunday on or before day n.
SundayBefore(n) == n - ((n + 1) % 7)

\* The number of the bin that day d falls in, consecutive bins having
\* consecutive numbers; first is the earliest day of the frame.
\*   dashboard: resample("W-MON", label="left", closed="left"),
\*              resample("2W-SUN", label="left", closed="left"), resample("MS")
\*   export:    resample("W"), resample("2W"), resample("ME")
\* Weeks run from Monday to Sunday in both, fortnights start on the Sunday
\* on or before the first day (dashboard) or end on the Sunday on or after
\* the first day of the first week (export), months are calendar months.
Bin(handler, analysis_type, first, d) ==
  CASE analysis_type = "last30days" -> d
    [] analysis_type = "weekly" -> d \div 7
    [] analysis_type = "fortnightly" /\ handler = "dashboard" ->
         (d - SundayBefore(first)) \div 14
    [] analysis_type = "fortnightly" /\ handler = "export" ->
         LET end == IF first % 7 = 6 THEN first ELSE SundayBefore(first) + 7
         IN  (d - (end - 13)) \div 14
    [] analysis_type = "monthly" -> MonthOf(d)

\* One row of .agg({'transit_time_hrs': 'mean', 'sttn_from': 'count'}): the
\* bin, the count of the values of sttn_from in it that are not null, and
\* the sum and the number of its transit times; the mean of the row is
\* total / values, NaN for a bin without rakes.
BinRow(handler, analysis_type, rows, first, b) ==
  LET S == { r \in rows : Bin(handler, analysis_type, first, DayNumber(r.received_time)) = b }
  IN  [ bin |-> b, rake_count |-> Cardinality({ r \in S : r.sttn_from # None }),
        total |-> Total(S), values |-> Cardinality(S) ]

\* df.groupby("date"): one row per date of the frame.
GroupByDate(handler, rows) ==
  LET days == { DayNumber(r.received_time) : r \in rows }
      first == CHOOSE d \in days : \A e \in days : d <= e
      latest == CHOOSE d \in days : \A e \in days : e <= d
  IN  SelectSeq([ j \in 1 .. latest - first + 1 |-> first + j - 1 ],
                LAMBDA d : d \in days)

\* df.set_index("received_time").resample(...).agg(...): one row per bin
\* from the bin of the earliest rake to the bin of the latest, with or
\* without rakes.
Resample(handler, analysis_type, rows) ==
  LET days == { DayNumber(r.received_time) : r \in rows }
      first == CHOOSE d \in days : \A e \in days : d <= e
      latest == CHOOSE d \in days : \A e \in days : e <= d
      lo == Bin(handler, analysis_type, first, first)
      hi == Bin(handler, analysis_type, first, latest)
  IN  [ j \in 1 .. hi - lo + 1 |->
          BinRow(handler, analysis_type, rows, first, lo + j - 1) ]

\* result['avg_transit_time'].round(2): the mean of each row, rounded.
RoundMeans(result) ==
  [ j \in 1 .. Len(result) |->
      [ bin |-> result[j].bin, rake_count |-> result[j].rake_count,
        total |-> result[j].total, values |-> result[j].values,
        avg_transit_time |-> RoundedMean(result[j].total, result[j].values) ] ]

\* result.dropna(): the rows without a NaN (the mean of an empty bin).
dropna(result) == SelectSeq(result, LAMBDA row : row.avg_transit_time # NaN)

\* ------------------------------------------------- float64 and the quantiles

\* transit_time_hrs is a Float column and a float64 in the frames. A
\* non-negative real below 2^16 that is a multiple of 2^-64 is held as the
\* four limbs, lowest first and to the base 2^20, of the number of 2^-64 it
\* is; every float64 the outlier rule meets is such a number, the transit
\* times being hundredths between 0.01 and 655.35.
LimbBase == 1048576

\* 2^k, k in 0 .. 20.
Pow2Small(k) ==
  << 1, 2, 4, 8, 16, 32, 64, 128, 256, 512, 1024, 2048, 4096, 8192, 16384,
     32768, 65536, 131072, 262144, 524288, 1048576 >>[k + 1]

BigZero == << 0, 0, 0, 0 >>

\* 2^k of 2^-64, k in 0 .. 79.
Pow2(k) == [ i \in 1 .. 4 |-> IF k \div 20 = i - 1 THEN Pow2Small(k % 20) ELSE 0 ]

BigAdd(a, b) ==
  LET s1 == a[1] + b[1]
      s2 == a[2] + b[2] + s1 \div LimbBase
      s3 == a[3] + b[3] + s2 \div LimbBase
      s4 == a[4] + b[4] + s3 \div LimbBase
  IN  << s1 % LimbBase, s2 % LimbBase, s3 % LimbBase, s4 % LimbBase >>

\* a - b for a >= b.
BigSub(a, b) ==
  LET d1 == a[1] - b[1]
      d2 == a[2] - b[2] - (IF d1 < 0 THEN 1 ELSE 0)
      d3 == a[3] - b[3] - (IF d2 < 0 THEN 1 ELSE 0)
      d4 == a[4] - b[4] - (IF d3 < 0 THEN 1 ELSE 0)
  IN  << d1 % LimbBase, d2 % LimbBase, d3 % LimbBase, d4 % LimbBase >>

BigLess(a, b) ==
  \E i \in 1 .. 4 : a[i] < b[i] /\ \A j \in i + 1 .. 4 : a[j] = b[j]

\* a / 2, a being even.
BigHalf(a) ==
  [ i \in 1 .. 4 |->
      a[i] \div 2 + (IF i < 4 THEN (a[i + 1] % 2) * (LimbBase \div 2) ELSE 0) ]

\* The number of bits of a limb and of a number.
RECURSIVE LimbBits(_)
LimbBits(x) == IF x = 0 THEN 0 ELSE 1 + LimbBits(x \div 2)

BitLength(a) ==
  IF a = BigZero THEN 0
  ELSE LET top == CHOOSE i \in 1 .. 4 : a[i] # 0 /\ \A j \in i + 1 .. 4 : a[j] = 0
       IN  20 * (top - 1) + LimbBits(a[top])

\* a modulo 2^k, and the bit of a that counts 2^k.
ModPow2(a, k) ==
  [ i \in 1 .. 4 |->
      IF i - 1 < k \div 20 THEN a[i]
      ELSE IF i - 1 = k \div 20 THEN a[i] % Pow2Small(k % 20)
      ELSE 0 ]

BitAt(a, k) == (a[k \div 20 + 1] \div Pow2Small(k % 20)) % 2

\* The float64 nearest to a real: a, or a and a little more when sticky,
\* rounded to 53 significant bits, a tie going to the even one.
Round53(a, sticky) ==
  IF BitLength(a) <= 53 THEN a
  ELSE LET drop == BitLength(a) - 53
           rest == ModPow2(a, drop)
           down == BigSub(a, rest)
           half == Pow2(drop - 1)
           up == \/ BigLess(half, rest)
                 \/ rest = half /\ (sticky \/ BitAt(a, drop) = 1)
       IN  IF up THEN BigAdd(down, Pow2(drop)) ELSE down

\* The float64 of a transit time of h hundredths, h / 100 rounded.
Float(h) ==
  LET q4 == (16 * h) \div 100
      r4 == (16 * h) % 100
      q3 == (r4 * LimbBase) \div 100
      r3 == (r4 * LimbBase) % 100
      q2 == (r3 * LimbBase) \div 100
      r2 == (r3 * LimbBase) % 100
      q1 == (r2 * LimbBase) \div 100
      r1 == (r2 * LimbBase) % 100
  IN  Round53(<< q1, q2, q3, q4 >>, r1 # 0)

\* a + b, a - b (a >= b) and a * n / 4 of float64 (n / 4 is 0.25, 0.5, 0.75
\* or, with n = 6, 1.5), each rounded as the processor rounds it.
FAdd(a, b) == Round53(BigAdd(a, b), FALSE)

FSub(a, b) == Round53(BigSub(a, b), FALSE)

FTimesQuarters(a, n) ==
  LET RECURSIVE Times(_)
      Times(k) == IF k = 0 THEN BigZero ELSE BigAdd(a, Times(k - 1))
  IN  Round53(BigHalf(BigHalf(Times(n))), FALSE)

\* numpy's _lerp(a, b, t) for t = g4 / 4: a + (b - a) * t, and
\* b - (b - a) * (1 - t) where t >= 0.5.
Lerp(a, b, g4) ==
  LET diff_b_a == FSub(b, a)
  IN  IF g4 >= 2 THEN FSub(b, FTimesQuarters(diff_b_a, 4 - g4))
      ELSE FAdd(a, FTimesQuarters(diff_b_a, g4))

\* The transit times of a set of rakes in ascending order, in hundredths.
RECURSIVE SortedHours(_)
SortedHours(S) ==
  IF S = { } THEN << >>
  ELSE LET r == CHOOSE x \in S : \A y \in S : x.transit_time_hrs <= y.transit_time_hrs
       IN  << r.transit_time_hrs >> \o SortedHours(S \ { r })

\* df['transit_time_hrs'].quantile(q4 / 4), pandas' linear interpolation:
\* the value at the virtual index (n - 1) * q of the sorted values.
Quantile(hours, q4) ==
  LET virtual == (Len(hours) - 1) * q4
      previous == virtual \div 4 + 1
      next == IF previous < Len(hours) THEN previous + 1 ELSE previous
  IN  Lerp(Float(hours[previous]), Float(hours[next]), virtual % 4)

\* lower_bound = Q1 - 1.5 * IQR and upper_bound = Q3 + 1.5 * IQR (lines
\* 467-468, 1130-1131), spread being 1.5 * IQR. lower_bound is negative when
\* 1.5 * IQR is more than Q1: the record holds its size and that it is
\* negative.
Fences(Q1, Q3, IQR, spread) ==
  [ Q1 |-> Q1, Q3 |-> Q3, IQR |-> IQR,
    negative |-> BigLess(Q1, spread),
    lower_bound |-> IF BigLess(Q1, spread) THEN FSub(spread, Q1)
                    ELSE FSub(Q1, spread),
    upper_bound |-> FAdd(Q3, spread) ]

\* Q1, Q3, IQR, lower_bound and upper_bound of a frame (lines 464-468,
\* 1127-1131).
Bounds(rows) ==
  LET Q1 == Quantile(SortedHours(rows), 1)
      Q3 == Quantile(SortedHours(rows), 3)
      IQR == FSub(Q3, Q1)
  IN  Fences(Q1, Q3, IQR, FTimesQuarters(IQR, 6))

NoBounds == [ Q1 |-> BigZero, Q3 |-> BigZero, IQR |-> BigZero, negative |-> FALSE,
              lower_bound |-> BigZero, upper_bound |-> BigZero ]

\* df[(df['transit_time_hrs'] < lower_bound) |
\*    (df['transit_time_hrs'] > upper_bound)] (lines 470, 1133).
OutliersOf(rows, bounds) ==
  { r \in rows :
      \/ ~bounds.negative /\ BigLess(Float(r.transit_time_hrs), bounds.lower_bound)
      \/ BigLess(bounds.upper_bound, Float(r.transit_time_hrs)) }

Outliers(rows) == OutliersOf(rows, Bounds(rows))

\* The bounds of a frame and the outliers they leave in it.
Detected(rows, bounds) ==
  [ bounds |-> bounds, outliers |-> OutliersOf(rows, bounds) ]

\* if not df.empty: the bounds and the outliers of the frame; none for an
\* empty frame (lines 414, 451, 463-470, 1119-1133).
DetectOutliers(rows) ==
  IF rows = { } THEN [ bounds |-> NoBounds, outliers |-> { } ]
  ELSE Detected(rows, Bounds(rows))

\* The aggregate of the dashboard (lines 449-713): by date for last30days,
\* resampled and then dropna for the other analysis types; none for an
\* empty frame.
DashboardResult(analysis_type, rows) ==
  IF rows = { } THEN << >>
  ELSE IF analysis_type = "last30days"
  THEN LET first == CHOOSE d \in { DayNumber(r.received_time) : r \in rows } :
                      \A r \in rows : d <= DayNumber(r.received_time)
       IN  RoundMeans([ j \in 1 .. Len(GroupByDate("dashboard", rows)) |->
                          BinRow("dashboard", analysis_type, rows, first,
                                 GroupByDate("dashboard", rows)[j]) ])
  ELSE dropna(RoundMeans(Resample("dashboard", analysis_type, rows)))

\* The aggregate export_csv writes (lines 1192-1231): by date for
\* last30days, resampled for the other analysis types; the empty frame for
\* an empty frame.
ExportResult(analysis_type, rows) ==
  IF rows = { } THEN << >>
  ELSE IF analysis_type = "last30days"
  THEN LET first == CHOOSE d \in { DayNumber(r.received_time) : r \in rows } :
                      \A r \in rows : d <= DayNumber(r.received_time)
       IN  [ j \in 1 .. Len(GroupByDate("export", rows)) |->
               BinRow("export", analysis_type, rows, first,
                      GroupByDate("export", rows)[j]) ]
  ELSE Resample("export", analysis_type, rows)

\* dashboard(), POST: the page with the aggregate and the outliers of the
\* filtered rakes; the page without a chart when no rake is left; when the
\* analysis type is none of the four and rakes are left, no branch binds
\* fig and line 778 raises UnboundLocalError.
Dashboard(form) ==
  /\ report.pc = "ready"
  /\ LET rows == DashboardRows(report.table, form, report.now)
         analysis_type == AnalysisType(form)
         detected == DetectOutliers(IF analysis_type \in analysis_types
                                    THEN rows ELSE { })
     IN  report' = [ report EXCEPT
           !.pc = "dashboard",
           !.form = form,
           !.analysis_type = analysis_type,
           !.rows = rows,
           !.response = IF rows # { } /\ analysis_type \notin analysis_types
                        THEN "UnboundLocalError" ELSE "page",
           !.result = IF analysis_type \in analysis_types
                      THEN DashboardResult(analysis_type, rows) ELSE << >>,
           !.bounds = detected.bounds,
           !.outliers = detected.outliers,
           !.total_records = Cardinality(rows) ]
  /\ UNCHANGED << store, work, lock, call, last, chunksize, nat_binding,
                  commodity_mappings, request >>

\* export_csv(), POST: the CSV of the aggregate of the filtered rakes; the
\* empty CSV when no rake is left; when the analysis type is none of the
\* four and rakes are left, no branch binds result and line 1231 raises
\* UnboundLocalError.
ExportCsv(form) ==
  /\ report.pc = "ready"
  /\ LET rows == ExportRows(report.table, form, report.now)
         analysis_type == AnalysisType(form)
     IN  report' = [ report EXCEPT
           !.pc = "export",
           !.form = form,
           !.analysis_type = analysis_type,
           !.rows = rows,
           !.response = IF rows # { } /\ analysis_type \notin analysis_types
                        THEN "UnboundLocalError" ELSE "csv",
           !.result = IF analysis_type \in analysis_types
                      THEN ExportResult(analysis_type, rows) ELSE << >>,
           !.bounds = NoBounds,
           !.outliers = { },
           !.total_records = Cardinality(rows) ]
  /\ UNCHANGED << store, work, lock, call, last, chunksize, nat_binding,
                  commodity_mappings, request >>

\* source_outliers(source_station), GET with commodity and destination: the
\* outliers of the rakes of the last 30 days from the source.
SourceOutliers(args) ==
  /\ report.pc = "ready"
  /\ LET rows == SourceOutliersRows(report.table, args, report.now)
         detected == DetectOutliers(rows)
     IN  report' = [ report EXCEPT
           !.pc = "source_outliers",
           !.form = args,
           !.analysis_type = "none",
           !.rows = rows,
           !.response = "page",
           !.result = << >>,
           !.bounds = detected.bounds,
           !.outliers = detected.outliers,
           !.total_records = Cardinality(rows) ]
  /\ UNCHANGED << store, work, lock, call, last, chunksize, nat_binding,
                  commodity_mappings, request >>

\* The days the requests are made on: 10 February and 10 April 2024.
Nows == { DayNumber(<< 2024, 2, 10, 0, 0 >>), DayNumber(<< 2024, 4, 10, 0, 0 >>) }

\* The state of the reports when a request arrives, over a table. The model
\* follows one request to its response: a later request meets the same
\* table and is answered from it alone.
Ready(table, now) ==
  [ pc |-> "ready", table |-> table, now |-> now, form |-> [ unit |-> "" ],
    analysis_type |-> "none", rows |-> { }, response |-> "none",
    result |-> << >>, bounds |-> NoBounds, outliers |-> { }, total_records |-> 0,
    analysis_data |-> << >> ]

\* The form with an analysis type and every filter left at "all".
Form(analysis_type) ==
  [ analysis_type |-> analysis_type, unit |-> "", sttn_from |-> "",
    commodity |-> "", rake_type |-> "" ]

\* The table of one destination holds one to MaxLen rakes when the reports
\* are asked for.
InitReport ==
  /\ store = EmptyTable
  /\ work = EmptyTable
  /\ lock = 0
  /\ call = [ p \in Procs |-> Idle ]
  /\ last = [ p \in Procs |-> NoSummary ]
  /\ chunksize = 1
  /\ nat_binding = "null"
  /\ commodity_mappings = CommodityFile
  /\ request = [ p \in Procs |-> NoRequest ]
  /\ \E table \in SetsUpTo(ReportRakes, MaxLen), now \in Nows :
       report = Ready(table, now)

NextReport ==
  \/ \E analysis_type \in analysis_types : Dashboard(Form(analysis_type))
  \/ \E analysis_type \in analysis_types : ExportCsv(Form(analysis_type))

SpecReport == InitReport /\ [][NextReport]_vars

\* A row of the table rakes, as the reports read it (lines 25-42, 269-276).
Rake(received_time, transit_time_hrs, sttn_from, sttn_to, commodity, rake_type) ==
  [ received_time |-> received_time, transit_time_hrs |-> transit_time_hrs,
    sttn_from |-> sttn_from, sttn_to |-> sttn_to,
    commodity |-> commodity, rake_type |-> rake_type ]

\* ------------------------------------------------------ commodity_analysis

\* Python's None where a number is expected.
NoneValue == 0 - 1

\* A mean is the sum and the number of its values. The transit times of the
\* tables of commodity_analysis are quarters of an hour, so their sums are
\* exact in float64 and two means are equal or ordered as floats exactly
\* when they are as fractions.
MeanLess(a, b) == a.total * b.values < b.total * a.values

MeanEqual(a, b) == a.total * b.values = b.total * a.values

\* if best_avg: a mean is truthy unless it is 0.0.
Truthy(a) == a.total # 0

\* round(best_avg, 2) if best_avg else None (lines 1063-1067).
RoundOrNone(a) == IF Truthy(a) THEN RoundedMean(a.total, a.values) ELSE NoneValue

\* The index of the first row of a non-empty sequence whose mean is the
\* least: monthly_avg['transit_time_hrs'].min() and the .iloc[0] of the rows
\* that equal it (lines 991-992, 1009-1010), and min(weekly_results,
\* key=...) (line 1040), which keeps the first of equal keys.
FirstLeast(rows) ==
  CHOOSE i \in 1 .. Len(rows) :
    /\ \A j \in 1 .. Len(rows) : ~MeanLess(rows[j], rows[i])
    /\ \A j \in 1 .. i - 1 : ~MeanEqual(rows[j], rows[i])

\* The last index of the least mean.
LastLeast(rows) ==
  CHOOSE i \in 1 .. Len(rows) :
    /\ \A j \in 1 .. Len(rows) : ~MeanLess(rows[j], rows[i])
    /\ \A j \in i + 1 .. Len(rows) : ~MeanEqual(rows[j], rows[i])

\* best_monthly and best_fortnightly of a group (lines 978-1012): over the
\* rakes since the lookback, resampled, the rows of at least one rake; the
\* least mean, and the count of the first row that has it when the mean is
\* truthy, else 0.
BestResampled(handler, analysis_type, rows) ==
  IF rows = { } THEN [ avg |-> NoneValue, count |-> 0 ]
  ELSE LET kept == SelectSeq(Resample(handler, analysis_type, rows),
                             LAMBDA row : row.rake_count >= 1)
           best == kept[FirstLeast(kept)]
       IN  [ avg |-> RoundOrNone(best),
             count |-> IF Truthy(best) THEN best.rake_count ELSE 0 ]

\* weekly_results (lines 1020-1037): for week_num = 0 .. 11, the week of
\* seven days that ends week_num weeks before yesterday, when the group has
\* rakes in it, the latest week first.
RECURSIVE WeeklyResults(_, _, _)
WeeklyResults(group, yesterday, week_num) ==
  IF week_num = 12 THEN << >>
  ELSE LET week_end == yesterday - 7 * week_num
           week_data == { r \in group :
                            /\ DayNumber(r.received_time) >= week_end - 6
                            /\ DayNumber(r.received_time) <= week_end }
       IN  (IF week_data = { } THEN << >>
            ELSE << [ total |-> Total(week_data), values |-> Cardinality(week_data),
                      week_num |-> week_num ] >>)
           \o WeeklyResults(group, yesterday, week_num + 1)

\* best_weekly of a group (lines 1014-1048).
BestWeekly(group, yesterday) ==
  LET weekly_results == WeeklyResults(group, yesterday, 0)
  IN  IF { r \in group : DayNumber(r.received_time) >= yesterday - 90 } = { }
         \/ weekly_results = << >>
      THEN [ avg |-> NoneValue, count |-> 0 ]
      ELSE LET best_week == weekly_results[FirstLeast(weekly_results)]
           IN  [ avg |-> RoundOrNone(best_week), count |-> best_week.values ]

\* The entry of analysis_data of a group (lines 1051-1068): its best month
\* of the last 365 days, best fortnight of the last 180 and best week of
\* the last 12 weeks. The breakdowns by month, week and day of the entry
\* are not part of the model.
GroupAnalysis(group, yesterday) ==
  [ best_monthly |->
      BestResampled("dashboard", "monthly",
        { r \in group : DayNumber(r.received_time) >= yesterday - 365 }),
    best_fortnightly |->
      BestResampled("export", "fortnightly",
        { r \in group : DayNumber(r.received_time) >= yesterday - 180 }),
    best_weekly |-> BestWeekly(group, yesterday) ]

\* df.groupby(['commodity', 'sttn_to', 'sttn_from']): the keys of the rakes
\* that have all three.
GroupKeys(rows) ==
  { << r.commodity, r.sttn_to, r.sttn_from >> : r \in { x \in rows : x.sttn_from # None } }

GroupOf(rows, key) ==
  { r \in rows : << r.commodity, r.sttn_to, r.sttn_from >> = key }

\* commodity_analysis(), GET with commodity and destination: yesterday is
\* the day before the request.
CommodityAnalysis(args) ==
  /\ report.pc = "ready"
  /\ LET rows == Where(Where(report.table, "commodity", args.commodity),
                       "sttn_to", args.destination)
     IN  report' = [ report EXCEPT
           !.pc = "commodity_analysis",
           !.form = args,
           !.rows = rows,
           !.response = "page",
           !.total_records = Cardinality(rows),
           !.analysis_data =
              [ key \in GroupKeys(rows) |->
                  GroupAnalysis(GroupOf(rows, key), report.now - 1) ] ]
  /\ UNCHANGED << store, work, lock, call, last, chunksize, nat_binding,
                  commodity_mappings, request >>

\* The rakes of the tables of commodity_analysis, asked on 10 April 2024:
\* received yesterday, in the week before (two days of it), in March,
\* February and January, with a transit time of 0, 5.50 or 24 hours from
\* KRBA, and of 5.50 hours from BNDM.
BestRakes ==
  LET times == { << 2024, 4, 9, 10, 0 >>, << 2024, 4, 2, 10, 0 >>,
                 << 2024, 4, 1, 10, 0 >>, << 2024, 3, 12, 10, 0 >>,
                 << 2024, 2, 5, 10, 0 >>, << 2024, 1, 5, 10, 0 >> }
  IN  { Rake(t, h, "KRBA", "BSL", "Coal", "BOXN") : t \in times, h \in { 0, 550, 2400 } }
        \cup { Rake(t, 550, "BNDM", "BSL", "Coal", "BOXN") : t \in times }

InitBest ==
  /\ store = EmptyTable
  /\ work = EmptyTable
  /\ lock = 0
  /\ call = [ p \in Procs |-> Idle ]
  /\ last = [ p \in Procs |-> NoSummary ]
  /\ chunksize = 1
  /\ nat_binding = "null"
  /\ commodity_mappings = CommodityFile
  /\ request = [ p \in Procs |-> NoRequest ]
  /\ \E table \in SetsUpTo(BestRakes, MaxLen + 1) :
       report = Ready(table, DayNumber(<< 2024, 4, 10, 0, 0 >>))

NextBest ==
  \E args \in [ commodity : { "", "Coal" }, destination : { "", "BSL" } ] :
    CommodityAnalysis(args)

SpecBest == InitBest /\ [][NextBest]_vars

\* The tables the filters and the outliers are asked of. Six rakes to BSL from
\* KRBA, of Coal in BOXN, the first received 5 January 2024 and the others
\* from 12 March to 9 April 2024, with the transit times of a list
\* (hundredths of an hour), and with them none, one or all of four rakes
\* of 99.99 hours that differ in the destination, the origin, the
\* commodity or the rake type.
QueryTimes ==
  << << 2024, 1, 5, 10, 0 >>, << 2024, 3, 12, 10, 0 >>, << 2024, 3, 19, 10, 0 >>,
     << 2024, 3, 26, 10, 0 >>, << 2024, 4, 2, 10, 0 >>, << 2024, 4, 9, 10, 0 >> >>

HourLists ==
  { << 10000, 100, 200, 300, 400, 500 >>,
    << 100, 200, 300, 400, 500, 10000 >>,
    << 100, 200, 300, 400, 500, 800 >>,
    << 100, 100, 100, 110, 150, 200 >>,
    << 90, 100, 120, 140, 200, 95 >>,
    << 100, 5000, 5100, 5200, 5300, 5400 >>,
    << 100, 100, 100, 130, 410, 700 >>,
    << 550, 550, 550, 550, 550, 550 >> }

RakesOf(hours) ==
  { Rake(QueryTimes[i], hours[i], "KRBA", "BSL", "Coal", "BOXN") : i \in 1 .. Len(hours) }

OtherRakes ==
  { Rake(<< 2024, 4, 3, 10, 0 >>, 9999, "KRBA", "BSP", "Coal", "BOXN"),
    Rake(<< 2024, 4, 4, 10, 0 >>, 9999, "BNDM", "BSL", "Coal", "BOXN"),
    Rake(<< 2024, 4, 5, 10, 0 >>, 9999, "KRBA", "BSL", "Iron Ore", "BOXN"),
    Rake(<< 2024, 4, 6, 10, 0 >>, 9999, "KRBA", "BSL", "Coal", "BCN") }

QueryTables ==
  { RakesOf(hours) \cup others :
      hours \in HourLists,
      others \in { { } } \cup { { r } : r \in OtherRakes } \cup { OtherRakes } }

\* The forms: an analysis type that is one of the four, absent or another
\* word, a unit or none, and no other filter, one of them or all three.
Forms ==
  { [ analysis_type |-> analysis_type, unit |-> unit, sttn_from |-> f[1],
      commodity |-> f[2], rake_type |-> f[3] ] :
      analysis_type \in analysis_types \cup { Absent, "yearly" },
      unit \in { "", "BSL", "BSP" },
      f \in { << "", "", "" >>, << "KRBA", "", "" >>, << "", "Coal", "" >>,
              << "", "", "BOXN" >>, << "KRBA", "Coal", "BOXN" >> } }

\* The arguments of source_outliers.
Args ==
  [ source_station : { "KRBA", "BNDM" }, commodity : { "", "Coal" },
    destination : { "", "BSL" } ]

InitQuery ==
  /\ store = EmptyTable
  /\ work = EmptyTable
  /\ lock = 0
  /\ call = [ p \in Procs |-> Idle ]
  /\ last = [ p \in Procs |-> NoSummary ]
  /\ chunksize = 1
  /\ nat_binding = "null"
  /\ commodity_mappings = CommodityFile
  /\ request = [ p \in Procs |-> NoRequest ]
  /\ \E table \in QueryTables :
       report = Ready(table, DayNumber(<< 2024, 4, 10, 0, 0 >>))

NextQuery ==
  \/ \E form \in Forms : Dashboard(form)
  \/ \E form \in Forms : ExportCsv(form)
  \/ \E args \in Args : SourceOutliers(args)

SpecQuery == InitQuery /\ [][NextQuery]_vars


\* -------------------------------------------------------------- properties

\* The call has ended.
Finished(L) == L.status \in { "returned", "raised" }

\* The call took a batch of records through the session: the frame was not
\* empty and had its commodity column.
Ingested(L) == Finished(L) /\ L.path \in { "bulk", "fallback" }

\* The rows of tbl with the natural key of r.
KeyCount(tbl, r) == SumOver(tbl, { s \in Rows : SameKey(s, r) })

\* Record k of the batch repeats the key of a stored row or of an earlier
\* record of the batch.
Duplicate(tbl, rows, k) ==
  \/ KeyCount(tbl, rows[k]) > 0
  \/ \E j \in 1 .. k - 1 : SameKey(rows[j], rows[k])

RECURSIVE AddAll(_, _, _)
AddAll(tbl, rows, K) ==
  IF K = {} THEN tbl
  ELSE LET k == CHOOSE x \in K : TRUE IN AddAll(Add(tbl, rows[k]), rows, K \ {k})

\* C1. Idempotent ingestion: a batch of N records with pairwise distinct
\* natural keys (dispatched_time may be missing), none of them stored, is
\* inserted whole by the first call, which returns (N, 0); the same batch
\* again returns (0, N) and leaves the table as it was. (Calls without an
\* injected storage fault.)
IdempotentIngestion ==
  \A p \in Procs :
    LET L == last[p]
        N == Len(L.records)
    IN  (Ingested(L) /\ ~L.faulted) =>
          /\ L.fresh => (L.status = "returned" /\ L.inserted = N /\ L.skipped = 0)
          /\ L.repeat => /\ L.status = "returned"
                         /\ L.inserted = 0
                         /\ L.skipped = N
                         /\ L.after = L.before

\* C2. Store uniqueness: no two rows of the committed table agree on all six
\* natural key fields, rows with a missing dispatched_time included.
StoreUniqueness ==
  \A r \in Rows : store[r] > 0 => KeyCount(store, r) = 1

\* C3. Dedup key completeness: of the records of a batch, those that differ
\* from every stored row and every earlier record in at least one of the six
\* key fields are all inserted, and those equal to one of them on all six key
\* fields are skipped, whatever their other fields. (Calls without an
\* injected storage fault.)
DedupKeyCompleteness ==
  \A p \in Procs :
    LET L == last[p]
        new == { k \in 1 .. Len(L.records) : ~Duplicate(L.before, L.records, k) }
    IN  (Ingested(L) /\ ~L.faulted) =>
          /\ L.status = "returned"
          /\ L.after = AddAll(L.before, L.records, new)
          /\ L.inserted = Cardinality(new)
          /\ L.skipped = Len(L.records) - Cardinality(new)

\* C4. Whenever insert_cleaned_data returns, skipped = total submitted -
\* inserted: the two counts are not negative and add up to the number of
\* records of the batch, on the bulk path and on the fallback path.
ReturnCountsAddUp ==
  \A p \in Procs :
    last[p].status = "returned" =>
      /\ last[p].inserted >= 0
      /\ last[p].skipped >= 0
      /\ last[p].inserted + last[p].skipped = Len(last[p].records)

\* A fallback run returned with a row inserted and a row skipped.
ReturnCountsAddUpWitness ==
  \E p \in Procs :
    /\ last[p].status = "returned"
    /\ last[p].path = "fallback"
    /\ last[p].inserted > 0
    /\ last[p].skipped > 0

\* C5. Per-row isolation in the fallback: a record's failure changes no
\* other record's outcome; every record of the batch whose own flush did not
\* fail is in the table when the call ends, those handled before the failing
\* one included. (The final commit itself not failing for the storage.)
FallbackRowIsolation ==
  \A p \in Procs :
    LET L == last[p]
    IN  (Finished(L) /\ L.path = "fallback" /\ L.error # "OperationalError") =>
          \A k \in 1 .. Len(L.records) :
            k \notin L.failed => L.after[L.records[k]] > 0

\* C6. Fallback instead of propagation: no exception of the bulk path or of
\* a fallback row reaches the caller of insert_cleaned_data. (The fallback's
\* final commit failing for the storage is left aside.)
NoExceptionReachesCaller ==
  \A p \in Procs :
    last[p].status = "raised" => last[p].error = "OperationalError"

\* C7, as the claim states it. Each chunk is committed before the next one
\* starts: when a further chunk is about to run, the rows of the chunks
\* before it are in the committed table.
ChunksCommittedIndependently ==
  \A p \in Procs :
    LET c == call[p]
    IN  (c.pc = "bulk" /\ 1 < c.i /\ c.i <= Len(c.records)) => Visible(p) = store

\* C7, amended. The chunks of a batch run in one transaction, committed once
\* after the last chunk: while the bulk path runs the committed table is the
\* one the call found, and when a chunk or the commit fails the rollback
\* takes back the rows of every chunk executed, so the fallback starts on the
\* table the call found with no transaction open.
ChunksCommitTogether ==
  \A p \in Procs :
    LET c == call[p]
    IN  /\ c.pc = "bulk" => store = c.before
        /\ (c.pc = "fallback" /\ c.i = 1) =>
             (store = c.before /\ lock # p /\ Visible(p) = c.before)

\* A later chunk failed after a chunk that had inserted a row: the fallback
\* is about to start and the committed table holds none of the batch.
ChunksCommitTogetherWitness ==
  \E p \in Procs :
    LET c == call[p]
    IN  /\ c.pc = "fallback"
        /\ c.i = 1
        /\ c.chunks >= 1
        /\ c.faulted
        /\ Fresh(c.before, c.records)
        /\ Len(c.records) >= 2
        /\ store = c.before

\* Chunking does not change the outcome of the bulk path: the table and the
\* counts are those of the whole batch sent as one chunk.
BulkEqualsOneChunk ==
  \A p \in Procs :
    LET L == last[p]
        one == InsertValues(L.before, L.records, 0)
    IN  (L.status = "returned" /\ L.path = "bulk") =>
          /\ L.after = one.tbl
          /\ L.inserted = one.rowcount
          /\ L.skipped = Len(L.records) - one.rowcount

\* C8. Chunked insert equivalence: for every batch and chunk size the bulk
\* path ends with the table and the counts of the batch sent as one chunk,
\* and of the records of the batch that share a natural key not yet stored,
\* the first in batch order is the one persisted.
ChunkedInsertEquivalence ==
  /\ BulkEqualsOneChunk
  /\ \A p \in Procs :
       LET L == last[p]
       IN  (L.status = "returned" /\ L.path = "bulk") =>
             \A k \in 1 .. Len(L.records) :
               ~Duplicate(L.before, L.records, k) =>
                 /\ L.after[L.records[k]] = 1
                 /\ KeyCount(L.after, L.records[k]) = 1

\* C10. Persisted records are immutable and never deleted: in every step
\* each stored row stays, with every field as it was, so the committed table
\* only grows; an insert that conflicts with a stored row changes nothing of
\* it.
PersistedRecordsOnlyGrow ==
  [][\A r \in Rows : store'[r] >= store[r]]_vars

\* A bulk call that skipped a record conflicting with a stored row has
\* returned, and the table still holds the stored row.
PersistedRecordsOnlyGrowWitness ==
  \E p \in Procs :
    LET L == last[p]
    IN  /\ L.status = "returned"
        /\ L.path = "bulk"
        /\ L.skipped > 0
        /\ \E k \in 1 .. Len(L.records) :
             \E s \in Rows :
               /\ s # L.records[k]
               /\ L.before[s] > 0
               /\ SameKey(s, L.records[k])
               /\ store[s] > 0
               /\ store[L.records[k]] = 0

\* Both callers have ended their upload, which ran at the same time, and the
\* two batches hold a record with the same natural key.
BothEndedSharingKey ==
  /\ \A p \in Procs : Ingested(last[p]) /\ ~last[p].faulted /\ last[p].overlapped
  /\ \E j \in 1 .. Len(last[1].records) :
       \E k \in 1 .. Len(last[2].records) :
         SameKey(last[1].records[j], last[2].records[k])

\* C9. Concurrent writers: when two calls that run at the same time submit batches that
\* share a natural key, under every interleaving exactly one row with that
\* key is persisted, neither call raises (the loser counts its conflicting
\* row as skipped), and the two inserted counts add up to the rows added to
\* the table. (Calls without an injected storage fault; the table starts
\* empty.)
ConcurrentWritersOneWinner ==
  BothEndedSharingKey =>
    /\ \A p \in Procs : last[p].status = "returned"
    /\ \A j \in 1 .. Len(last[1].records) :
         \A k \in 1 .. Len(last[2].records) :
           SameKey(last[1].records[j], last[2].records[k]) =>
             KeyCount(store, last[1].records[j]) = 1
    /\ last[1].inserted + last[2].inserted = RowCount(store)

\* The same for batches in which no dispatched_time is missing.
ConcurrentWritersOneWinnerDispatched ==
  (\A p \in Procs : \A k \in 1 .. Len(last[p].records) :
     Record(last[p].records[k]).dispatched_time # NaT)
    => ConcurrentWritersOneWinner

\* C11. insert_cleaned_data on an empty frame returns (0, 0) without opening
\* a session and without changing the table: the step that ends such a call
\* leaves the committed table, the open transaction and the write lock as
\* they were.
EmptyInputNoStorage ==
  [][\A p \in Procs :
       (call[p].pc = "idle" /\ last'[p].path = "empty") =>
         /\ last'[p].status = "returned"
         /\ last'[p].inserted = 0
         /\ last'[p].skipped = 0
         /\ ~last'[p].session
         /\ store' = store
         /\ work' = work
         /\ lock' = lock]_vars

\* An empty frame was submitted to a table that holds rows, and the rows are
\* still there.
EmptyInputNoStorageWitness ==
  /\ last[1].status = "returned"
  /\ last[1].path = "empty"
  /\ last[1].records = <<>>
  /\ RowCount(last[1].before) > 0
  /\ store = last[1].before

\* --------------------------------------------------- properties, clean_data

\* clean_data has run on the frame of request p.
Cleaned(p) == request[p].pc \in { "cleaned", "failed" }

\* The frame read has all nine required columns.
HasRequired(df) ==
  LET columns == Columns(df)
  IN  \A col \in required_cols : Chars(col) \in columns

\* The labels of the rows of the cleaned frame.
Kept(df_clean) == { df_clean.rows[j].index : j \in 1 .. Len(df_clean.rows) }

\* The cleaned row with label k.
Out(df_clean, k) ==
  df_clean.rows[CHOOSE j \in 1 .. Len(df_clean.rows) : df_clean.rows[j].index = k]

\* The received time of a row of the file names no time.
BadReceived(r) == to_datetime(Chars(Raw(r).received_time)) = NaT

\* The transit time of a row of the file has no numeric hour part followed
\* by ":" and a numeric minute part.
BadDuration(r) ==
  LET parts == Split(Chars(Raw(r).transit_time), ":")
  IN  \/ Len(parts) < 2
      \/ to_numeric(parts[1]) = NaN
      \/ to_numeric(parts[2]) = NaN

\* C12. The normalizer fails soft per row: for every frame with the nine
\* required columns clean_data returns, whatever its rows hold (a frame in
\* which no transit time parses included), and the rows whose received time
\* or duration does not parse are not in the output.
FailsSoftPerRow ==
  \A p \in Procs :
    LET df == request[p].df_raw
    IN  (Cleaned(p) /\ HasRequired(df)) =>
          /\ request[p].df_clean.error = "none"
          /\ \A k \in 1 .. Len(df.rows) :
               (BadReceived(df.rows[k]) \/ BadDuration(df.rows[k]))
                 => k \notin Kept(request[p].df_clean)

\* C13. A missing required column rejects the whole file: when one of the
\* nine required columns is absent after the headers are made canonical,
\* clean_data raises at the selection of the columns, before any row is
\* touched; the upload does not call insert_cleaned_data (no call starts,
\* none is recorded), the database is as it was and the request ends with
\* the error message.
MissingColumnRejectsBatch ==
  [][\A p \in Procs :
       (request[p].pc = "none" /\ request'[p].pc # "none"
          /\ ~HasRequired(request'[p].df_raw)) =>
         /\ request'[p].pc = "failed"
         /\ request'[p].df_clean.error = "KeyError: not in index"
         /\ request'[p].df_clean.rows = << >>
         /\ call' = call
         /\ last' = last
         /\ store' = store
         /\ work' = work
         /\ lock' = lock
         /\ Msg(request'[p], last'[p]) = "Error processing file"]_vars

\* A file without its Cmdt column, whose row would have been inserted, was
\* uploaded to a database that holds a row: no call was made and the row is
\* all the table holds.
MissingColumnRejectsBatchWitness ==
  /\ request[1].pc = "failed"
  /\ ~HasColumn(request[1].df_raw, "cmdt")
  /\ request[1].df_raw.rows = << "b1" >>
  /\ last[1] = NoSummary
  /\ call[1] = Idle
  /\ store = Add(EmptyTable, "A1")

\* The documented destination table: raw code, canonical code.
DocumentedDestinations ==
  { << "BSCS", "BSL" >>, << "BSPC", "BSP" >>, << "DSEY", "DSP" >>,
    << "IISD", "ISP" >>, << "BCME", "ISP" >>, << "HSPG", "RSP" >>,
    << "NHSB", "RSP" >> }

\* C14. Destination filtering and canonicalization: in the frame clean_data
\* returns, a row whose raw destination is one of the seven allow-listed
\* codes carries the documented canonical code of it, a row whose raw
\* destination is any other code is absent (dropped, no error), and no row
\* carries a raw code as its destination.
DestinationCanonical ==
  \A p \in Procs :
    LET df == request[p].df_raw
        out == request[p].df_clean
    IN  request[p].pc = "cleaned" =>
          /\ \A k \in 1 .. Len(df.rows) :
               LET code == Raw(df.rows[k]).sttn_to
               IN  IF \E pr \in DocumentedDestinations : pr[1] = code
                   THEN k \in Kept(out) =>
                          << code, Out(out, k).sttn_to >> \in DocumentedDestinations
                   ELSE k \notin Kept(out)
          /\ \A j \in 1 .. Len(out.rows) :
               \A pr \in DocumentedDestinations : out.rows[j].sttn_to # pr[1]

\* A file with a row for BCME and a row for a code outside the seven was
\* cleaned: the first is kept with destination ISP, the second is gone.
DestinationCanonicalWitness ==
  /\ request[1].pc = "cleaned"
  /\ request[1].df_raw.rows = << "d5", "x1" >>
  /\ Len(request[1].df_clean.rows) = 1
  /\ request[1].df_clean.rows[1].index = 1
  /\ request[1].df_clean.rows[1].sttn_to = "ISP"

\* The destinations the table of clean_data gives the seven valid codes.
CanonicalDestinations == { StandardCode(code) : code \in valid_destinations }

\* The valid raw codes that become destination d.
RawCodesOf(d) == { code \in valid_destinations : StandardCode(code) = d }

\* The destinations of the rows of a cleaned frame and of the stored rows
\* are canonical ones.
OnlyCanonicalDestinations ==
  /\ \A p \in Procs :
       request[p].pc = "cleaned" =>
         \A j \in 1 .. Len(request[p].df_clean.rows) :
           request[p].df_clean.rows[j].sttn_to \in CanonicalDestinations
  /\ \A r \in Rows : store[r] > 0 => Record(r).sttn_to \in CanonicalDestinations

\* C15, as the claim states it. The destination table collapses the seven
\* allow-listed raw codes to exactly four canonical destinations, two of
\* which receive two raw codes each, and these are the only destinations of
\* the rows of a cleaned frame and of the stored rows.
FourCanonicalDestinations ==
  /\ Cardinality(valid_destinations) = 7
  /\ Cardinality(CanonicalDestinations) = 4
  /\ Cardinality({ d \in CanonicalDestinations : Cardinality(RawCodesOf(d)) = 2 }) = 2
  /\ OnlyCanonicalDestinations

\* C15, amended. The destination table collapses the seven allow-listed raw
\* codes to exactly five canonical destinations (BSL, BSP, DSP, ISP, RSP):
\* two of them (ISP, RSP) receive two raw codes each, the other three one
\* each, and these five are the only destinations of the rows of a cleaned
\* frame and of the stored rows.
FiveCanonicalDestinations ==
  /\ Cardinality(valid_destinations) = 7
  /\ CanonicalDestinations = { "BSL", "BSP", "DSP", "ISP", "RSP" }
  /\ Cardinality(CanonicalDestinations) = 5
  /\ { d \in CanonicalDestinations : Cardinality(RawCodesOf(d)) = 2 } = { "ISP", "RSP" }
  /\ { d \in CanonicalDestinations : Cardinality(RawCodesOf(d)) = 1 } = { "BSL", "BSP", "DSP" }
  /\ OnlyCanonicalDestinations

\* A cleaned frame holds two rows that came with different raw codes and
\* carry the same destination.
FiveCanonicalDestinationsWitness ==
  LET df == request[1].df_raw
      out == request[1].df_clean
  IN  /\ request[1].pc = "cleaned"
      /\ Len(out.rows) = 2
      /\ out.rows[1].sttn_to = out.rows[2].sttn_to
      /\ Raw(df.rows[out.rows[1].index]).sttn_to # Raw(df.rows[out.rows[2].index]).sttn_to

\* round(H + M/60, 2) in hundredths of an hour: the integer nearest to
\* 100 * H + 100 * M / 60.
Rounded(H, M) ==
  CHOOSE n \in 100 * H .. 100 * H + 2 * M + 1 :
    60 * n - (6000 * H + 100 * M) \in -30 .. 30

\* What the duration rule asks of row k of the frame of request p: with a
\* numeric hour part and a numeric minute part the row, if kept, carries
\* round(H + M/60, 2) whatever follows the minute part; otherwise the row is
\* not in the output.
DurationRule(p, k) ==
  LET r == request[p].df_raw.rows[k]
      out == request[p].df_clean
      parts == Split(Chars(Raw(r).transit_time), ":")
  IN  IF BadDuration(r) THEN k \notin Kept(out)
      ELSE /\ k \in Kept(out) =>
                Out(out, k).transit_time_hrs
                  = Rounded(to_numeric(parts[1]), to_numeric(parts[2]))
           /\ Raw(r).transit_time = "5:30" => Hours(5, 30) = 550
           /\ Raw(r).transit_time = "5:45" => Hours(5, 45) = 575
           /\ k \notin Kept(out) =>
                \/ BadReceived(r)
                \/ Raw(r).sttn_to \notin valid_destinations
                \/ Raw(r).sttn_from \in clean_sttn_from

\* The duration rule on the frames clean_data returns.
DurationParsedWhenReturned ==
  \A p \in Procs :
    request[p].pc = "cleaned" =>
      \A k \in 1 .. Len(request[p].df_raw.rows) : DurationRule(p, k)

\* C16. Duration parsing: for a transit time "H:M" or "H:M:S" with numeric
\* H and M clean_data sets transit_time_hrs = round(H + M/60, 2), in
\* hundredths ("5:30" gives 550, "5:45" gives 575), ignoring the parts after
\* the second; for a text whose hour or minute part is missing or not
\* numeric it yields null and drops the row: clean_data returns, without
\* the row.
DurationParsing ==
  \A p \in Procs :
    (Cleaned(p) /\ HasRequired(request[p].df_raw)) =>
      /\ request[p].df_clean.error = "none"
      /\ \A k \in 1 .. Len(request[p].df_raw.rows) : DurationRule(p, k)

\* Row r of a file has a dispatched time that names no time, while its
\* received time, duration, destination and origin let it through.
OnlyDispatchedBad(r) ==
  /\ to_datetime(Chars(Raw(r).dispatched_time)) = NaT
  /\ ~BadReceived(r)
  /\ ~BadDuration(r)
  /\ Raw(r).sttn_to \in valid_destinations
  /\ Raw(r).sttn_from \notin clean_sttn_from

\* C17. A row whose dispatched time does not parse, with a valid received
\* time, duration and destination, is kept by clean_data with a null
\* dispatched_time, and the upload of a file with such a row returns with
\* the key of every cleaned row of the file in the table and with every
\* record whose key was not stored counted as inserted. (Commodity table not
\* empty, no injected storage fault.)
NullDispatchedPersisted ==
  \A p \in Procs :
    LET df == request[p].df_raw
        out == request[p].df_clean
        L == last[p]
        new == { j \in 1 .. Len(L.records) : ~Duplicate(L.before, L.records, j) }
    IN  (request[p].pc = "cleaned"
           /\ \E k \in 1 .. Len(df.rows) : OnlyDispatchedBad(df.rows[k])) =>
          /\ \A k \in 1 .. Len(df.rows) :
               OnlyDispatchedBad(df.rows[k]) =>
                 (k \in Kept(out) /\ Out(out, k).dispatched_time = NaT)
          /\ (Finished(L) /\ ~L.faulted /\ out.hasCommodity) =>
               /\ L.status = "returned"
               /\ \A j \in 1 .. Len(L.records) : KeyCount(L.after, L.records[j]) > 0
               /\ L.inserted >= Cardinality(new)

\* The same under a database that stores a missing dispatched_time as NULL.
NullDispatchedPersistedAsNull ==
  nat_binding = "null" => NullDispatchedPersisted

\* Row r of a file has a destination of the allow list, a received time
\* that parses and a duration that parses.
Documented(r) ==
  /\ Raw(r).sttn_to \in { pr[1] : pr \in DocumentedDestinations }
  /\ ~BadReceived(r)
  /\ ~BadDuration(r)

\* C18, as the claim states it. clean_data drops a row only for the
\* documented reasons: every row with an allow-listed destination, a
\* received time that parses and a duration that parses is in the output,
\* whatever its origin, commodity, rake type, serial number and unit count.
OnlyDocumentedDrops ==
  \A p \in Procs :
    LET df == request[p].df_raw
    IN  (Cleaned(p) /\ HasRequired(df)) =>
          \A k \in 1 .. Len(df.rows) :
            Documented(df.rows[k]) =>
              (request[p].df_clean.error = "none" /\ k \in Kept(request[p].df_clean))

\* C18, amended. clean_data also drops the rows whose origin is BNDM or
\* DSPY: every row with an allow-listed destination, an origin other than
\* BNDM and DSPY, a received time that parses and a duration that parses is
\* in the output, whatever its commodity, rake type, serial number and unit
\* count; a row with origin BNDM or DSPY never is.
DropsAlsoCleanOrigins ==
  \A p \in Procs :
    LET df == request[p].df_raw
    IN  (Cleaned(p) /\ HasRequired(df)) =>
          \A k \in 1 .. Len(df.rows) :
            /\ (Documented(df.rows[k]) /\ Raw(df.rows[k]).sttn_from \notin { "BNDM", "DSPY" })
                 => (request[p].df_clean.error = "none" /\ k \in Kept(request[p].df_clean))
            /\ Raw(df.rows[k]).sttn_from \in { "BNDM", "DSPY" }
                 => k \notin Kept(request[p].df_clean)

\* A file with a row from BNDM and a row of another commodity, both with a
\* valid destination, received time and duration, was cleaned: the first
\* is gone, the second is kept.
DropsAlsoCleanOriginsWitness ==
  /\ request[1].pc = "cleaned"
  /\ request[1].df_raw.rows = << "o1", "c1" >>
  /\ Documented("o1")
  /\ Kept(request[1].df_clean) = { 2 }

\* The commodity value the alias rule gives a raw code: the table's name
\* for the code when the table has one, the code itself otherwise.
Alias(code) ==
  IF \E pr \in commodity_mappings : pr[1] = code
  THEN CHOOSE name \in { pr[2] : pr \in commodity_mappings } :
         << code, name >> \in commodity_mappings
  ELSE code

\* Every row of the cleaned frame of request p carries the commodity value
\* of the alias rule.
CarriesAlias(p) ==
  \A j \in 1 .. Len(request[p].df_clean.rows) :
    LET row == request[p].df_clean.rows[j]
    IN  /\ "commodity" \in DOMAIN row
        /\ row.commodity = Alias(row.cmdt)

\* The alias rule under a commodity table that is not empty.
CarriesAliasOfTable ==
  \A p \in Procs :
    (request[p].pc = "cleaned" /\ commodity_mappings # { }) => CarriesAlias(p)

\* C19. Absent mapping is identity: under every commodity table, the empty
\* one included, every cleaned record carries as commodity the table's name
\* for its raw code, or the raw code where the table has none, and the
\* cleaned batch can be ingested: insert_cleaned_data returns. (Batches
\* without a missing dispatched_time, no injected storage fault.)
AbsentMappingIsIdentity ==
  \A p \in Procs :
    LET L == last[p]
    IN  request[p].pc = "cleaned" =>
          /\ CarriesAlias(p)
          /\ (Finished(L) /\ ~L.faulted
                /\ \A j \in 1 .. Len(L.records) : Record(L.records[j]).dispatched_time # NaT)
               => L.status = "returned"

\* ---------------------------------------------------- properties, reports

\* Every row of the aggregate of the dashboard is the row of a bin that has
\* rakes.
DashboardNoEmptyBucket ==
  report.pc = "dashboard" =>
    \A j \in 1 .. Len(report.result) : report.result[j].values >= 1

\* C20. No empty bucket is ever emitted: for every analysis type and every
\* filtered set of rakes each row of the aggregate, of the dashboard and of
\* the exported CSV, counts at least one rake, a period without rakes
\* between two periods with rakes makes no row, and the rows are as many as
\* the periods that have rakes.
NoEmptyBucket ==
  report.pc \in { "dashboard", "export" } =>
    /\ \A j \in 1 .. Len(report.result) : report.result[j].values >= 1
    /\ report.rows # { } =>
         LET first == CHOOSE d \in { DayNumber(r.received_time) : r \in report.rows } :
                        \A r \in report.rows : d <= DayNumber(r.received_time)
         IN  Len(report.result)
               = Cardinality({ Bin(report.pc, report.analysis_type, first,
                                   DayNumber(r.received_time)) : r \in report.rows })

\* The rows of the result that are the row of bin b.
RowsOfBin(b) == { j \in 1 .. Len(report.result) : report.result[j].bin = b }

\* The bin of a filtered rake in the aggregate of the report.
BinOf(r) ==
  LET first == CHOOSE d \in { DayNumber(x.received_time) : x \in report.rows } :
                 \A x \in report.rows : d <= DayNumber(x.received_time)
  IN  Bin(report.pc, report.analysis_type, first, DayNumber(r.received_time))

RECURSIVE SumCounts(_, _)
SumCounts(result, n) ==
  IF n = 0 THEN 0 ELSE result[n].rake_count + SumCounts(result, n - 1)

\* Each row of the dashboard counts the filtered rakes of its bin, every
\* filtered rake lies in the bin of exactly one row, and the counts add up
\* to total_records.
CountsAreRows ==
  /\ \A j \in 1 .. Len(report.result) :
       report.result[j].rake_count
         = Cardinality({ r \in report.rows : BinOf(r) = report.result[j].bin })
  /\ \A r \in report.rows : Cardinality(RowsOfBin(BinOf(r))) = 1
  /\ SumCounts(report.result, Len(report.result)) = Cardinality(report.rows)

\* The counts are those of the rakes when every filtered rake has an origin.
BucketCountsWithOrigin ==
  (report.pc = "dashboard" /\ \A r \in report.rows : r.sttn_from # None)
    => CountsAreRows

\* C21. Bucket counts are count(*): in every aggregate of the dashboard the
\* count of each row is the number of filtered rakes received in its
\* bucket, whatever their other fields (a missing origin included), so the
\* counts add up to total_records and every filtered rake is counted in
\* exactly one bucket.
BucketCountsAreCountStar ==
  report.pc = "dashboard" => CountsAreRows

\* The aggregate of the dashboard and the aggregate export_csv writes for
\* the analysis type and the filtered rakes of the report, one of the two
\* being the result of the report.
DashboardOfReport ==
  IF report.pc = "dashboard" THEN report.result
  ELSE DashboardResult(report.analysis_type, report.rows)

ExportOfReport ==
  IF report.pc = "export" THEN report.result
  ELSE ExportResult(report.analysis_type, report.rows)

\* The partition of the filtered rakes into the buckets of a handler.
Buckets(handler) ==
  LET first == CHOOSE d \in { DayNumber(x.received_time) : x \in report.rows } :
                 \A x \in report.rows : d <= DayNumber(x.received_time)
      B(r) == Bin(handler, report.analysis_type, first, DayNumber(r.received_time))
  IN  { { x \in report.rows : B(x) = B(r) } : r \in report.rows }

\* Two rows, of the dashboard and of the export, with the same count and
\* means within 0.01 (the dashboard's mean is in hundredths, the export's is
\* total / values).
RowsAgree(d, e) ==
  /\ d.rake_count = e.rake_count
  /\ d.values = e.values
  /\ d.avg_transit_time * e.values - e.total <= e.values
  /\ e.total - d.avg_transit_time * e.values <= e.values

SameRows(d, e) ==
  /\ Len(d) = Len(e)
  /\ \A j \in 1 .. Len(d) : RowsAgree(d[j], e[j])

\* The rows of the export that are rows of a bucket with rakes.
Populated(e) == SelectSeq(e, LAMBDA row : row.values >= 1)

\* By date, by week and by month the export has the rows of the dashboard
\* and, between them, the rows of the periods without rakes.
ExportEqualsAggregateButEmptyRows ==
  (report.pc \in { "dashboard", "export" } /\ report.analysis_type # "fortnightly")
    => /\ Buckets("dashboard") = Buckets("export")
       /\ SameRows(DashboardOfReport, Populated(ExportOfReport))

\* C22. Export equals the aggregate: for the same filters and the same
\* analysis type over the same table, the rows of the exported CSV describe
\* the aggregate of the dashboard: the same partition of the filtered rakes
\* into buckets, the same count in each bucket and the same mean in each
\* bucket within 0.01, by date, by week, by fortnight and by month.
ExportEqualsAggregate ==
  report.pc \in { "dashboard", "export" }
    => /\ Buckets("dashboard") = Buckets("export")
       /\ SameRows(DashboardOfReport, ExportOfReport)

\* --------------------------------------------------- properties, outliers

\* The rule in exact arithmetic on the transit times, four times the
\* hundredths: the linearly interpolated quantile at q4 / 4 of the sorted
\* values.
ExactQuantile(hours, q4) ==
  LET virtual == (Len(hours) - 1) * q4
      previous == virtual \div 4 + 1
      next == IF previous < Len(hours) THEN previous + 1 ELSE previous
  IN  4 * hours[previous] + (virtual % 4) * (hours[next] - hours[previous])

\* A rake is outside the bounds of the rule: below Q1 - 1.5 * IQR or above
\* Q3 + 1.5 * IQR (compared in eight times the quantiles' unit).
Outside(rows, r) ==
  LET q1 == ExactQuantile(SortedHours(rows), 1)
      q3 == ExactQuantile(SortedHours(rows), 3)
  IN  \/ 8 * r.transit_time_hrs < 2 * q1 - 3 * (q3 - q1)
      \/ 8 * r.transit_time_hrs > 2 * q3 + 3 * (q3 - q1)

OnBound(rows, r) ==
  LET q1 == ExactQuantile(SortedHours(rows), 1)
      q3 == ExactQuantile(SortedHours(rows), 3)
  IN  \/ 8 * r.transit_time_hrs = 2 * q1 - 3 * (q3 - q1)
      \/ 8 * r.transit_time_hrs = 2 * q3 + 3 * (q3 - q1)

Answered ==
  /\ report.rows # { }
  /\ \/ report.pc = "source_outliers"
     \/ report.pc = "dashboard" /\ report.analysis_type \in analysis_types

\* No rake strictly inside the bounds is listed and every rake strictly
\* outside them is: the list differs from the rule on the bounds only.
OutliersButOnBound ==
  Answered =>
    \A r \in report.rows :
      ~OnBound(report.rows, r) => (r \in report.outliers <=> Outside(report.rows, r))

\* Of the transit times 1, 2, 3, 4, 5 and 100 the rake of 100 is listed and
\* no other.
OneToFiveAndHundred ==
  (Answered /\ SortedHours(report.rows) = << 100, 200, 300, 400, 500, 10000 >>)
    => { r.transit_time_hrs : r \in report.outliers } = { 10000 }

\* C23. IQR outlier rule: for every non-empty set of filtered rakes a rake
\* is in the outlier list if and only if its transit time is strictly
\* below Q1 - 1.5 * IQR or strictly above Q3 + 1.5 * IQR, Q1 and Q3 being
\* the linearly interpolated 25th and 75th percentiles of the set and
\* IQR = Q3 - Q1; a value exactly on a bound is not listed.
IQROutlierRule ==
  Answered =>
    \A r \in report.rows : r \in report.outliers <=> Outside(report.rows, r)

\* The rakes of a table that match the filters and the time window of the
\* query of the report: of the unit (the dashboard's is the one asked for
\* or the first of the table), of the origin, the commodity and the rake
\* type asked for, received in the window of the analysis type; for
\* source_outliers of the source, the commodity and the destination asked
\* for, received in the last 30 days.
InScope(table) ==
  IF report.pc = "dashboard"
  THEN { r \in table :
           /\ r.sttn_to = SelectedUnit(report.table, report.form)
           /\ report.form.sttn_from \in { "", r.sttn_from }
           /\ report.form.commodity \in { "", r.commodity }
           /\ report.form.rake_type \in { "", r.rake_type }
           /\ DayNumber(r.received_time)
                >= report.now - CutoffDays(report.analysis_type) }
  ELSE { r \in table :
           /\ r.sttn_from = report.form.source_station
           /\ report.form.commodity \in { "", r.commodity }
           /\ report.form.destination \in { "", r.sttn_to }
           /\ DayNumber(r.received_time) >= report.now - 30 }

\* The bounds and the outliers the handler of the report finds over a
\* table.
DetectedOver(table) ==
  IF report.pc = "dashboard"
  THEN DetectOutliers(DashboardRows(table, report.form, report.now))
  ELSE DetectOutliers(SourceOutliersRows(table, report.form, report.now))

OutliersAsked ==
  \/ report.pc = "source_outliers"
  \/ report.pc = "dashboard" /\ report.analysis_type \in analysis_types

\* C24. Outlier scope isolation: the bounds and the outlier list of a query
\* depend only on the rakes of the table that match the filters and the
\* time window of the query: a table that agrees with the table of the
\* report on those rakes gives the same bounds and the same outliers,
\* whatever other rakes (of other destinations, origins, commodities, rake
\* types or dates) the two hold.
OutlierScopeIsolation ==
  OutliersAsked =>
    \A table \in QueryTables :
      InScope(table) = InScope(report.table)
        => /\ DetectedOver(table).bounds = report.bounds
           /\ DetectedOver(table).outliers = report.outliers

\* A query with outliers over a table that holds rakes out of its scope,
\* another table agreeing with it on the rakes in scope.
OutlierScopeIsolationWitness ==
  /\ OutliersAsked
  /\ report.outliers # { }
  /\ InScope(report.table) # report.table
  /\ \E table \in QueryTables :
       table # report.table /\ InScope(table) = InScope(report.table)

\* ------------------------------------------- properties, commodity_analysis

\* The buckets with rakes of a group in the lookback of a granularity, the
\* earliest first, each with the sum and the number of its transit times:
\* the calendar months of the last 365 days, the fortnights of the last 180
\* days and the twelve weeks that end yesterday.
WindowBuckets(group, granularity) ==
  LET yesterday == report.now - 1
      Reverse(q) == [ i \in 1 .. Len(q) |-> q[Len(q) + 1 - i] ]
      since(days) == { r \in group : DayNumber(r.received_time) >= yesterday - days }
  IN  CASE granularity = "best_monthly" ->
             IF since(365) = { } THEN << >>
             ELSE Populated(Resample("dashboard", "monthly", since(365)))
        [] granularity = "best_fortnightly" ->
             IF since(180) = { } THEN << >>
             ELSE Populated(Resample("export", "fortnightly", since(180)))
        [] granularity = "best_weekly" ->
             IF since(90) = { } THEN << >> ELSE Reverse(WeeklyResults(group, yesterday, 0))

Granularities == { "best_monthly", "best_fortnightly", "best_weekly" }

\* The reported best of a group is the least mean of the buckets and the
\* count of the earliest bucket that has it.
BestIsEarliestLeast(key, granularity) ==
  LET buckets == WindowBuckets(GroupOf(report.rows, key), granularity)
      best == report.analysis_data[key][granularity]
  IN  buckets # << >> =>
        /\ best.avg = RoundedMean(buckets[FirstLeast(buckets)].total,
                                  buckets[FirstLeast(buckets)].values)
        /\ best.count = buckets[FirstLeast(buckets)].values

\* By month and by fortnight the best is the earliest least mean, unless
\* that mean is 0.
BestMonthAndFortnight ==
  report.pc = "commodity_analysis" =>
    \A key \in DOMAIN report.analysis_data :
      \A granularity \in { "best_monthly", "best_fortnightly" } :
        LET buckets == WindowBuckets(GroupOf(report.rows, key), granularity)
        IN  (buckets # << >> /\ Truthy(buckets[FirstLeast(buckets)]))
              => BestIsEarliestLeast(key, granularity)

\* By week the best is the least mean, unless it is 0, and the count of the
\* latest week that has it.
BestWeekIsLatestLeast ==
  report.pc = "commodity_analysis" =>
    \A key \in DOMAIN report.analysis_data :
      LET buckets == WindowBuckets(GroupOf(report.rows, key), "best_weekly")
          best == report.analysis_data[key].best_weekly
      IN  buckets # << >> =>
            /\ Truthy(buckets[LastLeast(buckets)])
                 => best.avg = RoundedMean(buckets[LastLeast(buckets)].total,
                                           buckets[LastLeast(buckets)].values)
            /\ best.count = buckets[LastLeast(buckets)].values

\* C25. Best-window reduction: for each granularity of the commodity
\* analysis (monthly, fortnightly, weekly) the reported best value is the
\* minimum mean over the non-empty buckets of the lookback window, and when
\* several buckets share that minimum the reported bucket, and its count,
\* is the earliest of them.
BestWindowReduction ==
  report.pc = "commodity_analysis" =>
    \A key \in DOMAIN report.analysis_data :
      \A granularity \in Granularities : BestIsEarliestLeast(key, granularity)

\* C29. A best-window result exists whenever data exists: for every group
\* that has a non-empty bucket in a lookback, the reported best mean is not
\* None and the reported best count is at least 1 and is the count of a
\* bucket that has the minimum mean, whatever the transit times, a minimum
\* mean of exactly 0 included.
BestWindowExists ==
  report.pc = "commodity_analysis" =>
    \A key \in DOMAIN report.analysis_data :
      \A granularity \in Granularities :
        LET buckets == WindowBuckets(GroupOf(report.rows, key), granularity)
            best == report.analysis_data[key][granularity]
        IN  buckets # << >> =>
              /\ best.avg # NoneValue
              /\ best.count >= 1
              /\ \E i \in 1 .. Len(buckets) :
                   /\ \A j \in 1 .. Len(buckets) : ~MeanLess(buckets[j], buckets[i])
                   /\ best.count = buckets[i].values

\* A best-window result exists when the least mean is not 0.
BestWindowExistsUnlessZero ==
  report.pc = "commodity_analysis" =>
    \A key \in DOMAIN report.analysis_data :
      \A granularity \in Granularities :
        LET buckets == WindowBuckets(GroupOf(report.rows, key), granularity)
            best == report.analysis_data[key][granularity]
        IN  (buckets # << >> /\ Truthy(buckets[FirstLeast(buckets)])) =>
              /\ best.avg # NoneValue
              /\ best.count >= 1
              /\ \E i \in 1 .. Len(buckets) :
                   /\ \A j \in 1 .. Len(buckets) : ~MeanLess(buckets[j], buckets[i])
                   /\ best.count = buckets[i].values

\* ------------------------------------------------ properties, the forms

\* The query of the report has no analysis type or one that is none of the
\* four.
InvalidGranularity ==
  /\ report.pc \in { "dashboard", "export" }
  /\ report.form.analysis_type \notin analysis_types

\* What the handlers do with it: without an analysis type they answer as
\* for last30days; with another word they do not filter by date, raise
\* UnboundLocalError when rakes match the other filters and answer with an
\* empty page or an empty CSV when none does.
InvalidGranularityOutcome ==
  InvalidGranularity =>
    IF report.form.analysis_type = Absent
    THEN /\ report.response \in { "page", "csv" }
         /\ report.analysis_type = "last30days"
         /\ report.rows = Filtered(report.rows, "last30days", report.now)
    ELSE /\ report.result = << >>
         /\ report.response = IF report.rows # { } THEN "UnboundLocalError"
                               ELSE IF report.pc = "dashboard" THEN "page" ELSE "csv"
         /\ (report.form.unit = "" /\ report.pc = "export")
              => report.rows = Where(Where(Where(report.table,
                                                 "sttn_from", report.form.sttn_from),
                                           "commodity", report.form.commodity),
                                     "rake_type", report.form.rake_type)

\* C26. Invalid granularity is rejected: a query of the dashboard or of the
\* export whose analysis type is absent or is not one of the supported
\* values is answered with an explicit descriptive error; it never yields a
\* result, neither an aggregate under a default analysis type nor an
\* unfiltered or empty result, whatever the table holds.
InvalidGranularityRejected ==
  InvalidGranularity =>
    /\ report.response \notin { "page", "csv" }
    /\ report.response # "UnboundLocalError"
    /\ report.result = << >>

\* ------------------------------------------ properties, counts and the table

\* On the bulk path the table grows by the count returned as inserted.
BulkCountsMatchStore ==
  \A p \in Procs :
    (last[p].status = "returned" /\ last[p].path = "bulk") =>
      RowCount(last[p].after) = RowCount(last[p].before) + last[p].inserted

\* C27. Returned counts match the store: whenever insert_cleaned_data
\* returns (inserted, skipped), exactly inserted records of the batch were
\* added to the committed table by the call (the rows after are the rows
\* before plus inserted), on the bulk path and on the fallback path, a
\* fallback run in which a duplicate follows rows inserted earlier in the
\* run included.
ReturnedCountsMatchStore ==
  \A p \in Procs :
    last[p].status = "returned" =>
      RowCount(last[p].after) = RowCount(last[p].before) + last[p].inserted

\* ------------------------------------- properties, the canonical destination

\* Rows r and s of a file are equal in received time, origin, commodity
\* code, rake type and dispatched time, and their destination codes differ
\* and have one canonical destination.
Collapse(r, s) ==
  /\ Raw(r).sttn_to # Raw(s).sttn_to
  /\ Raw(r).sttn_to \in valid_destinations
  /\ Raw(s).sttn_to \in valid_destinations
  /\ StandardCode(Raw(r).sttn_to) = StandardCode(Raw(s).sttn_to)
  /\ \A f \in { "received_time", "sttn_from", "cmdt", "rake_type", "dispatched_time" } :
       Raw(r)[f] = Raw(s)[f]

\* Row j of the file of request p has such a row beside it in the file, or
\* in the file uploaded before.
Collapsing(p, j) ==
  LET rows == request[p].df_raw.rows
      before == IF p = 2 THEN request[1].df_raw.rows ELSE << >>
  IN  \/ \E k \in 1 .. Len(rows) : Collapse(rows[j], rows[k])
      \/ \E k \in 1 .. Len(before) : Collapse(rows[j], before[k])

\* The upload of request p returned, and of the rows of its file that
\* collapse with another one record is in the table, the records with a
\* key not stored and not earlier in the file are those counted as
\* inserted, and the others are counted as skipped.
OneRecordOfCollapsing(p) ==
  LET L == last[p]
      rows == request[p].df_raw.rows
      new == { j \in 1 .. Len(L.records) : ~Duplicate(L.before, L.records, j) }
  IN  /\ Len(L.records) = Len(rows)
      /\ \A j \in 1 .. Len(rows) :
           Collapsing(p, j) => KeyCount(L.after, L.records[j]) = 1
      /\ L.inserted = Cardinality(new)
      /\ L.skipped = Len(L.records) - Cardinality(new)

\* The upload of request p returned and its file has a row that collapses
\* with another.
CollapsingReturned(p) ==
  /\ request[p].pc = "cleaned"
  /\ last[p].status = "returned"
  /\ last[p].path \in { "bulk", "fallback" }
  /\ \E j \in 1 .. Len(request[p].df_raw.rows) : Collapsing(p, j)

\* On the bulk path the rows that collapse are one record, in one file or in
\* two.
CanonicalDedupBulk ==
  \A p \in Procs :
    (CollapsingReturned(p) /\ last[p].path = "bulk") => OneRecordOfCollapsing(p)

\* C28. Deduplication is applied to the canonical destination: of two rows
\* of uploaded files equal in received time, origin, commodity code, rake
\* type and dispatched time whose destination codes differ and have one
\* canonical destination (IISD and BCME, HSPG and NHSB), uploaded in one
\* file or in two, exactly one record is in the table when the upload has
\* returned, and the other is counted as skipped.
CanonicalDedup ==
  \A p \in Procs : CollapsingReturned(p) => OneRecordOfCollapsing(p)

====
